---- MODULE Spec2Model ----
(***************************************************************************)
(* A model of prog2math: the LatexExpr / Indicator algebra, the registry   *)
(* that LoadingUtils builds by reflection, the recursive builder           *)
(* create_expr_by_reflection and main, for the two source variants         *)
(* prog2math.py and math_prog.py.                                          *)
(*                                                                         *)
(* Python values are records tagged by the field py.  A text (a Python str *)
(* or the text of an expression) is a sequence of tokens: a token is one   *)
(* character of an input text, or one literal piece of LaTeX that the      *)
(* source writes as a unit (such as \left( ).                              *)
(*                                                                         *)
(* Spec is one run of main, SpecCache the registrations of _add_to_cache   *)
(* on their own, and SpecAlgebra one operation of Indicator called         *)
(* directly, whose formula is then read to the value it denotes.           *)
(***************************************************************************)
EXTENDS Integers, Sequences, FiniteSets, TLC

(***************************************************************************)
(* Python values                                                           *)
(***************************************************************************)
StrV(s) == [py |-> "str", s |-> s]
IntV(n) == [py |-> "int", n |-> n]
\* a float, kept as the text repr() gives for it
FloatV(repr) == [py |-> "float", repr |-> repr]
BoolV(b) == [py |-> "bool", b |-> b]
DictV(items) == [py |-> "dict", items |-> items]
ListV(elems) == [py |-> "list", elems |-> elems]
NoneV == [py |-> "None"]
Item(k, v) == [k |-> k, v |-> v]

\* the keys of a dict (a sequence of items whose keys are distinct), in order
Keys(items) == [i \in 1..Len(items) |-> items[i].k]
HasKey(items, k) == \E i \in 1..Len(items) : items[i].k = k
Get(items, k) == items[CHOOSE i \in 1..Len(items) : items[i].k = k].v

\* d[k] = v on a dict kept as a sequence of items
SetItem(items, k, v) ==
    IF HasKey(items, k)
    THEN [i \in 1..Len(items) |-> IF items[i].k = k THEN Item(k, v) ELSE items[i]]
    ELSE Append(items, Item(k, v))

IsExpr(v) == v.py \in {"LatexExpr", "Indicator"}

(***************************************************************************)
(* str() of the values the program formats into a text                     *)
(***************************************************************************)
Digit(d) == <<"0", "1", "2", "3", "4", "5", "6", "7", "8", "9">>[d + 1]

RECURSIVE NatToStr(_)
NatToStr(n) == IF n < 10 THEN <<Digit(n)>> ELSE NatToStr(n \div 10) \o <<Digit(n % 10)>>

IntToStr(n) == IF n < 0 THEN <<"-">> \o NatToStr(0 - n) ELSE NatToStr(n)

RECURSIVE Repr(_)
RECURSIVE ReprItems(_, _)
RECURSIVE ReprElems(_, _)
\* repr() of the entries of a dict from entry i on
ReprItems(items, i) ==
    IF i > Len(items) THEN <<>>
    ELSE (IF i > 1 THEN <<",", " ">> ELSE <<>>)
         \o <<"'", items[i].k, "'", ":", " ">> \o Repr(items[i].v)
         \o ReprItems(items, i + 1)
ReprElems(elems, i) ==
    IF i > Len(elems) THEN <<>>
    ELSE (IF i > 1 THEN <<",", " ">> ELSE <<>>) \o Repr(elems[i]) \o ReprElems(elems, i + 1)
Repr(v) ==
    CASE v.py = "str" -> <<"'">> \o v.s \o <<"'">>
      [] v.py = "int" -> IntToStr(v.n)
      [] v.py = "float" -> v.repr
      [] v.py = "bool" -> IF v.b THEN <<"T", "r", "u", "e">> ELSE <<"F", "a", "l", "s", "e">>
      [] v.py = "None" -> <<"N", "o", "n", "e">>
      [] v.py = "dict" -> <<"{">> \o ReprItems(v.items, 1) \o <<"}">>
      [] v.py = "list" -> <<"[">> \o ReprElems(v.elems, 1) \o <<"]">>
      [] OTHER -> <<"<object>">>

\* str(v), which is also what an f-string writes for v
Str(v) ==
    CASE v.py \in {"LatexExpr", "Indicator"} -> v.expression
      [] v.py = "str" -> v.s
      [] OTHER -> Repr(v)

\* bool(v), the truth value of v in a condition
Truthy(v) ==
    CASE v.py = "bool" -> v.b
      [] v.py = "int" -> v.n # 0
      [] v.py = "float" -> v.repr \notin {<<"0", ".", "0">>, <<"-", "0", ".", "0">>}
      [] v.py = "str" -> Len(v.s) > 0
      [] v.py = "dict" -> Len(v.items) > 0
      [] v.py = "list" -> Len(v.elems) > 0
      [] v.py = "None" -> FALSE
      [] OTHER -> TRUE

(***************************************************************************)
(* LatexExpr and Indicator                                                 *)
(***************************************************************************)
\* LatexExpr.__init__: the expression is saved as str(expression)
LatexExpr(expression) == [py |-> "LatexExpr", expression |-> Str(expression)]

\* Indicator.__init__ calls LatexExpr.__init__
Indicator(expression) == [py |-> "Indicator", expression |-> Str(expression)]

(***************************************************************************)
(* The pieces of LaTeX the source writes                                   *)
(***************************************************************************)
LP == "\\left("
RP == "\\right)"
LFLOOR == "\\left\\lfloor"
RFLOOR == "\\right\\rfloor"
LCEIL == "\\left\\lceil"
RCEIL == "\\right\\rceil"

\* \left( text \right)
Grouped(text) == <<LP>> \o text \o <<RP>>

(***************************************************************************)
(* The operations of LatexExpr and Indicator.  An operand is any Python    *)
(* value: the source formats it with str().                                *)
(***************************************************************************)
\* prog2math.py: compose(a, b) returns the formatted text, a bare str
compose(a, b) == StrV(Str(a) \o Grouped(Str(b)))

\* math_prog.py: compose of any number of expressions, folded from the last expression
RECURSIVE compose_text(_, _, _)
compose_text(expressions, i, whole_expr) ==
    IF i = 0 THEN whole_expr
    ELSE compose_text(expressions, i - 1,
                      IF Len(whole_expr) > 0
                      THEN Str(expressions[i]) \o Grouped(whole_expr)
                      ELSE Str(expressions[i]))
compose_variadic(expressions) ==
    LatexExpr(StrV(compose_text(expressions, Len(expressions), <<>>)))

RECURSIVE JoinGrouped(_, _)
JoinGrouped(indicators, i) ==
    IF i > Len(indicators) THEN <<>>
    ELSE Grouped(Str(indicators[i])) \o JoinGrouped(indicators, i + 1)

\* logical_and without the brackets around each operand
RECURSIVE JoinBare(_, _)
JoinBare(indicators, i) ==
    IF i > Len(indicators) THEN <<>>
    ELSE Str(indicators[i]) \o JoinBare(indicators, i + 1)
logical_and_bare(indicators) == Indicator(StrV(JoinBare(indicators, 1)))

logical_and(indicators) == Indicator(StrV(JoinGrouped(indicators, 1)))

logical_not(indicator) == Indicator(StrV(<<"1", "-">> \o Grouped(Str(indicator))))

logical_or(indicators) ==
    logical_not(logical_and([i \in 1..Len(indicators) |-> logical_not(indicators[i])]))

are_not_equal(a, b) ==
    Indicator(StrV(<<LCEIL, "\\frac", "{", "4", "\\arctan", "^", "2", "{", LP>>
                   \o Str(a) \o <<"-">> \o Str(b)
                   \o <<RP, "}", "}", "{", "\\pi", "^", "2", "}", RCEIL>>))

are_equal(a, b) == logical_not(are_not_equal(a, b))

is_non_negative(a) ==
    LET abs_val_expr == LatexExpr(StrV(<<"\\sqrt", "{">> \o Grouped(Str(a)) \o <<"^", "2", "}">>))
    IN  are_equal(abs_val_expr, a)

less_than_or_equal(a, b) == is_non_negative(LatexExpr(StrV(Str(b) \o <<"-">> \o Str(a))))

less_than(a, b) == logical_not(less_than_or_equal(b, a))

bigger_than_or_equal(a, b) == less_than_or_equal(b, a)

bigger_than(a, b) == less_than(b, a)

is_integer(a) ==
    Indicator(StrV(<<LFLOOR, LP, "\\cos", LP, "\\pi", " ">> \o Str(a)
                   \o <<RP, RP, "^", "2", RFLOOR>>))

is_natural(a, include_zero) ==
    LET natural_cond == IF Truthy(include_zero) THEN is_non_negative(a)
                        ELSE bigger_than(a, LatexExpr(IntV(0)))
    IN  logical_and(<<is_integer(a), natural_cond>>)

divides(a, b) ==
    is_integer(LatexExpr(StrV(<<"\\frac", "{">> \o Str(b) \o <<"}", "{">> \o Str(a) \o <<"}">>)))

does_not_divide(a, b) == logical_not(divides(a, b))

\* returns the formatted text, a bare str
get_mod(a, b) ==
    StrV(Str(a) \o <<" ", "-", " ">> \o Str(b) \o <<LFLOOR, "\\frac", "{">> \o Str(a)
         \o <<"}", "{">> \o Str(b) \o <<"}", RFLOOR>>)

\* the body of is_prime_divisors after its validations; index_letter is a str
is_prime_divisors(a, index_letter) ==
    LET prod_expr ==
            LatexExpr(StrV(<<"\\prod", "_", "{">> \o index_letter.s \o <<"=", "2", "}", "^", "{">>
                           \o Str(a) \o <<"-", "1", "}">>
                           \o Grouped(Str(does_not_divide(LatexExpr(index_letter), a)))))
    IN  logical_and(<<is_natural(a, BoolV(FALSE)), is_natural(prod_expr, BoolV(FALSE))>>)

is_prime_wilson(a) ==
    logical_and(<<less_than(IntV(1), a),
                  is_integer(LatexExpr(StrV(<<"\\frac", "{", LP>> \o Str(a)
                                            \o <<"-", "1", RP, "!", "+", "1", "}", "{">>
                                            \o Str(a) \o <<"}">>)))>>)

post_decimal_point_digit_text(a, b) ==
    <<LFLOOR, "1", "0", "^">> \o Str(b) \o <<" ">> \o Str(a)
    \o <<RFLOOR, " ", "-", " ", "1", "0", LFLOOR, "1", "0", "^", "{">> \o Str(b)
    \o <<"-", "1", "}", " ">> \o Str(a) \o <<RFLOOR>>

\* prog2math.py; math_prog.py names the undefined LocalExpr instead (see Call)
get_post_decimal_point_digit(a, b) == LatexExpr(StrV(post_decimal_point_digit_text(a, b)))

range_sum_text(lo, hi, indicator, index_letter) ==
    <<"\\sum", "_", "{">> \o Str(index_letter) \o <<"=">> \o Str(lo) \o <<"}", "^", "{">>
    \o Str(hi) \o <<"}">> \o Grouped(Str(indicator))

all_in_range(lo, hi, indicator, index_letter) ==
    Indicator(StrV(range_sum_text(lo, hi, indicator, index_letter)))

count_in_range(lo, hi, indicator, index_letter) ==
    LatexExpr(StrV(range_sum_text(lo, hi, indicator, index_letter)))

\* returns the text, a bare str; the root index is the literal {n}
is_range_at_least_exp(lo, hi, n, indicator, index_letter) ==
    StrV(<<LFLOOR, "\\sqrt", "[", "{", "n", "}", "]", "{", "\\frac", "{">> \o Str(n)
         \o <<"}", "{">> \o Str(count_in_range(lo, hi, indicator, index_letter))
         \o <<"}", "}", RFLOOR>>)

(***************************************************************************)
(* What reflection sees: the classes of the module, the functions of each  *)
(* class and the signature of each function.  A function object is named   *)
(* by its qualified name; variant is "prog2math" or "math_prog".           *)
(***************************************************************************)
Variants == {"prog2math", "math_prog"}

\* annotations of parameters
AnnEmpty == [a |-> "empty", name |-> ""]
AnnByName(name) == [a |-> "string", name |-> name]
AnnClass(name) == [a |-> "class", name |-> name]
AnnGeneric == [a |-> "generic", name |-> "list"]
AnnUnion == [a |-> "union", name |-> "Union"]

\* one parameter: var is TRUE for *name, required is FALSE when it has a default
Param(name, ann, var, required) == [name |-> name, ann |-> ann, var |-> var, required |-> required]
Pos(name, ann) == Param(name, ann, FALSE, TRUE)
Opt(name, ann) == Param(name, ann, FALSE, FALSE)
Var(name, ann) == Param(name, ann, TRUE, FALSE)

ExprAB == <<Pos("a", AnnClass("LatexExpr")), Pos("b", AnnClass("LatexExpr"))>>
ExprA == <<Pos("a", AnnClass("LatexExpr"))>>
RangeParams == <<Pos("lo", AnnClass("LatexExpr")), Pos("hi", AnnClass("LatexExpr")),
                 Pos("indicator", AnnByName("Indicator")), Opt("index_letter", AnnClass("str"))>>

\* inspect.signature(method).parameters
Signature(variant, method) ==
    CASE method = "LatexExpr.__init__" -> <<Pos("self", AnnEmpty), Pos("expression", AnnUnion)>>
      [] method = "Indicator.__init__" -> <<Pos("self", AnnEmpty), Pos("expression", AnnClass("str"))>>
      [] method \in {"LatexExpr.__str__", "LatexExpr.get_expression"} -> <<Pos("self", AnnEmpty)>>
      [] method = "LatexExpr.compose" ->
            IF variant = "prog2math"
            THEN <<Pos("a", AnnByName("LatexExpr")), Pos("b", AnnByName("LatexExpr"))>>
            ELSE <<Var("expressions", AnnGeneric)>>
      [] method \in {"Indicator.logical_and", "Indicator.logical_or"} ->
            <<Var("indicators", AnnGeneric)>>
      [] method = "Indicator.logical_not" -> <<Pos("indicator", AnnByName("Indicator"))>>
      [] method \in {"Indicator.are_not_equal", "Indicator.are_equal",
                     "Indicator.less_than_or_equal", "Indicator.less_than",
                     "Indicator.bigger_than_or_equal", "Indicator.bigger_than",
                     "Indicator.divides", "Indicator.does_not_divide", "Indicator.get_mod",
                     "Indicator.get_post_decimal_point_digit"} -> ExprAB
      [] method \in {"Indicator.is_non_negative", "Indicator.is_integer",
                     "Indicator.is_prime_wilson"} -> ExprA
      [] method = "Indicator.is_natural" -> ExprA \o <<Opt("include_zero", AnnClass("bool"))>>
      [] method = "Indicator.is_prime_divisors" -> ExprA \o <<Opt("index_letter", AnnClass("str"))>>
      [] method \in {"Indicator.all_in_range", "Indicator.count_in_range"} -> RangeParams
      [] method = "Indicator.is_range_at_least_exp" ->
            <<Pos("lo", AnnClass("LatexExpr")), Pos("hi", AnnClass("LatexExpr")),
              Pos("n", AnnClass("LatexExpr")), Pos("indicator", AnnByName("Indicator")),
              Opt("index_letter", AnnClass("str"))>>
      [] OTHER -> <<>>

HasParam(params, name) == \E i \in 1..Len(params) : params[i].name = name
ParamOf(params, name) == params[CHOOSE i \in 1..Len(params) : params[i].name = name]

\* inspect.getmembers(module, isclass), by name, with issubclass(class_obj, LatexExpr)
ModuleClasses ==
    <<[class_name |-> "Indicator", is_latex |-> TRUE],
      [class_name |-> "LatexExpr", is_latex |-> TRUE],
      [class_name |-> "LoadingUtils", is_latex |-> FALSE]>>

Func(func_name, func_obj) == [func_name |-> func_name, func_obj |-> func_obj]

\* inspect.getmembers(class_obj, isfunction), by name; Indicator inherits from LatexExpr
ClassFunctions(class_name) ==
    CASE class_name = "Indicator" ->
            <<Func("__init__", "Indicator.__init__"),
              Func("__str__", "LatexExpr.__str__"),
              Func("all_in_range", "Indicator.all_in_range"),
              Func("are_equal", "Indicator.are_equal"),
              Func("are_not_equal", "Indicator.are_not_equal"),
              Func("bigger_than", "Indicator.bigger_than"),
              Func("bigger_than_or_equal", "Indicator.bigger_than_or_equal"),
              Func("compose", "LatexExpr.compose"),
              Func("count_in_range", "Indicator.count_in_range"),
              Func("divides", "Indicator.divides"),
              Func("does_not_divide", "Indicator.does_not_divide"),
              Func("get_expression", "LatexExpr.get_expression"),
              Func("get_mod", "Indicator.get_mod"),
              Func("get_post_decimal_point_digit", "Indicator.get_post_decimal_point_digit"),
              Func("is_integer", "Indicator.is_integer"),
              Func("is_natural", "Indicator.is_natural"),
              Func("is_non_negative", "Indicator.is_non_negative"),
              Func("is_prime_divisors", "Indicator.is_prime_divisors"),
              Func("is_prime_wilson", "Indicator.is_prime_wilson"),
              Func("is_range_at_least_exp", "Indicator.is_range_at_least_exp"),
              Func("less_than", "Indicator.less_than"),
              Func("less_than_or_equal", "Indicator.less_than_or_equal"),
              Func("logical_and", "Indicator.logical_and"),
              Func("logical_not", "Indicator.logical_not"),
              Func("logical_or", "Indicator.logical_or")>>
      [] class_name = "LatexExpr" ->
            <<Func("__init__", "LatexExpr.__init__"),
              Func("__str__", "LatexExpr.__str__"),
              Func("compose", "LatexExpr.compose"),
              Func("get_expression", "LatexExpr.get_expression")>>
      [] OTHER -> <<>>

(***************************************************************************)
(* Exceptions: the type and the message, without the names the message     *)
(* quotes; name is the quoted name.                                        *)
(***************************************************************************)
Exc(exc, msg, name) == [exc |-> exc, msg |-> msg, name |-> name]
NoExc == Exc("", "", "")
ConfigurationError(name) == Exc("AssertionError", "Method is not unique", name)
ClassNotUnique(name) == Exc("AssertionError", "Class is not unique", name)
OperationNotFound(name) == Exc("AssertionError", "Method not found", name)
UnknownArgument(name) == Exc("AssertionError", "Argument not found for method", name)
NotCompound(name) == Exc("AssertionError", "Argument must be a compound type", name)
MalformedArgument(name) == Exc("AssertionError", "Argument must have a single entry", name)
ArgumentNotUnique(name) == Exc("AssertionError", "Argument is not unique", name)
MalformedInput == Exc("AssertionError", "Input JSON must have a single entry", "")
ValidationError(name) == Exc("AssertionError", "Invalid index letter", name)
NoOperands(name) == Exc("AssertionError", "Must provide at least one", name)
TypeError(msg, name) == Exc("TypeError", msg, name)
AttributeError(msg, name) == Exc("AttributeError", msg, name)
NameError(name) == Exc("NameError", "name is not defined", name)

(***************************************************************************)
(* LoadingUtils: the registry.  A mapping is NoneV or a DictV from names   *)
(* to function objects (or to classes).                                    *)
(***************************************************************************)
\* a registration that overwrites what the name was mapped to
add_to_cache_overwrite(methods, method_name, method_obj) ==
    [methods |-> SetItem(methods, method_name, method_obj), raised |-> NoExc]

\* _add_to_cache on the items of _METHOD_NAMES_MAPPING: the items after the
\* call and the exception it raised
add_to_cache(methods, method_name, method_obj) ==
    LET prev_is_none == ~HasKey(methods, method_name)
    IN  IF ~prev_is_none /\ Get(methods, method_name) = method_obj
        THEN [methods |-> methods, raised |-> NoExc]
        ELSE IF ~prev_is_none
        THEN [methods |-> methods, raised |-> ConfigurationError(method_name)]
        ELSE [methods |-> SetItem(methods, method_name, method_obj), raised |-> NoExc]

\* func_name.startswith('_'), for the function names of the module
StartsWithUnderscore(func_name) == func_name \in {"__init__", "__str__"}

\* the loop body of _build_cache for one function of one class
add_function(variant, cache, class_name, func) ==
    IF func.func_name = "__init__"
    THEN add_to_cache(cache.methods, class_name, func.func_obj)
    ELSE IF StartsWithUnderscore(func.func_name)
    THEN [methods |-> cache.methods, raised |-> NoExc]
    ELSE IF HasParam(Signature(variant, func.func_obj), "self")
    THEN [methods |-> cache.methods, raised |-> NoExc]
    ELSE add_to_cache(cache.methods, func.func_name, func.func_obj)

RECURSIVE build_functions(_, _, _, _, _)
\* the loop of _build_cache over the functions of one class, from function i on
build_functions(variant, cache, class_name, funcs, i) ==
    IF i > Len(funcs) \/ cache.raised # NoExc THEN cache
    ELSE LET added == add_function(variant, cache, class_name, funcs[i])
         IN  build_functions(variant,
                             [cache EXCEPT !.methods = added.methods, !.raised = added.raised],
                             class_name, funcs, i + 1)

\* the loop body of _build_cache for one class of the module
add_class(variant, cache, class) ==
    IF ~class.is_latex THEN cache
    ELSE IF HasKey(cache.classes, class.class_name)
    THEN [cache EXCEPT !.raised = ClassNotUnique(class.class_name)]
    ELSE build_functions(variant,
                         [cache EXCEPT !.classes =
                              SetItem(cache.classes, class.class_name, class.class_name)],
                         class.class_name, ClassFunctions(class.class_name), 1)

RECURSIVE build_classes(_, _, _)
build_classes(variant, cache, i) ==
    IF i > Len(ModuleClasses) \/ cache.raised # NoExc THEN cache
    ELSE build_classes(variant, add_class(variant, cache, ModuleClasses[i]), i + 1)

\* _build_cache: both mappings are emptied, then filled from the module
build_cache(variant) ==
    build_classes(variant, [methods |-> <<>>, classes |-> <<>>, raised |-> NoExc], 1)

\* a fill that builds the cache whether or not it is filled
fill_cache_always(variant, mapping, methods, classes) ==
    [methods |-> DictV(build_cache(variant).methods),
     classes |-> DictV(build_cache(variant).classes),
     raised |-> build_cache(variant).raised, built_now |-> TRUE]

\* the two mappings as _build_cache leaves them, and the exception it raised
built_mappings(built) ==
    [methods |-> DictV(built.methods), classes |-> DictV(built.classes),
     raised |-> built.raised, built_now |-> TRUE]

\* "fill the cache if necessary": built when mapping (the one the caller
\* tests) is None, left alone otherwise
fill_cache(variant, mapping, methods, classes) ==
    IF mapping.py = "None"
    THEN built_mappings(build_cache(variant))
    ELSE [methods |-> methods, classes |-> classes, raised |-> NoExc, built_now |-> FALSE]

\* a lookup that falls back on an operation for the names it does not hold
lookup_with_default(mapping, name) ==
    IF HasKey(mapping.items, name) THEN StrV(Get(mapping.items, name))
    ELSE StrV("Indicator.is_integer")

\* mapping.get(name, None) on a mapping that was filled
lookup(mapping, name) == IF HasKey(mapping.items, name) THEN StrV(Get(mapping.items, name)) ELSE NoneV

\* "get the result from the mapping" once the cache is filled: the mappings,
\* the result and the exception of the assertion not_found
get_from_filled(filled, mapping, name, throw_if_not_found, not_found) ==
    LET result == IF filled.raised # NoExc THEN NoneV ELSE lookup(mapping, name)
    IN  [methods |-> filled.methods, classes |-> filled.classes, result |-> result,
         built_now |-> filled.built_now,
         raised |-> IF filled.raised # NoExc THEN filled.raised
                    ELSE IF throw_if_not_found /\ result = NoneV
                    THEN not_found ELSE NoExc]

method_from_filled(filled, method_name, throw_if_not_found) ==
    get_from_filled(filled, filled.methods, method_name, throw_if_not_found,
                    OperationNotFound(method_name))

class_from_filled(filled, class_name, throw_if_not_found) ==
    get_from_filled(filled, filled.classes, class_name, throw_if_not_found,
                    Exc("AssertionError", "Class not found", class_name))

\* _get_method_from_name: the mappings after the call, the result and the exception
get_method_from_name(variant, methods, classes, method_name, throw_if_not_found) ==
    method_from_filled(fill_cache(variant, methods, methods, classes),
                       method_name, throw_if_not_found)

\* _get_class_from_name
get_class_from_name(variant, methods, classes, class_name, throw_if_not_found) ==
    class_from_filled(fill_cache(variant, classes, methods, classes),
                      class_name, throw_if_not_found)

(***************************************************************************)
(* Calling a method with keyword arguments: the binding, then the body     *)
(***************************************************************************)
Returned(val) == [raised |-> NoExc, val |-> val]
Raised(exc) == [raised |-> exc, val |-> NoneV]

Arg(kwds, name, default) == IF HasKey(kwds, name) THEN Get(kwds, name) ELSE default

\* the exception Python raises when kwds do not fit the parameters, or NoExc
BindError(params, kwds) ==
    IF \E i \in 1..Len(kwds) : ~HasParam(params, kwds[i].k) \/ ParamOf(params, kwds[i].k).var
    THEN LET i == CHOOSE j \in 1..Len(kwds) :
                      /\ ~HasParam(params, kwds[j].k) \/ ParamOf(params, kwds[j].k).var
                      /\ \A l \in 1..(j - 1) :
                             HasParam(params, kwds[l].k) /\ ~ParamOf(params, kwds[l].k).var
         IN  TypeError("got an unexpected keyword argument", kwds[i].k)
    ELSE IF \E i \in 1..Len(params) : params[i].required /\ ~HasKey(kwds, params[i].name)
    THEN LET i == CHOOSE j \in 1..Len(params) :
                      /\ params[j].required /\ ~HasKey(kwds, params[j].name)
                      /\ \A l \in 1..(j - 1) :
                             ~(params[l].required /\ ~HasKey(kwds, params[l].name))
         IN  TypeError("missing required positional argument", params[i].name)
    ELSE NoExc

LowerLetters ==
    {"a", "b", "c", "d", "e", "f", "g", "h", "i", "j", "k", "l", "m",
     "n", "o", "p", "q", "r", "s", "t", "u", "v", "w", "x", "y", "z"}

\* is_prime_divisors with the first of its validations only
call_is_prime_divisors_any_case(a, index_letter) ==
    IF index_letter.py \notin {"str", "dict", "list"}
    THEN Raised(TypeError("object has no len()", "index_letter"))
    ELSE IF (CASE index_letter.py = "str" -> Len(index_letter.s)
               [] index_letter.py = "dict" -> Len(index_letter.items)
               [] OTHER -> Len(index_letter.elems)) # 1
    THEN Raised(ValidationError("index_letter"))
    ELSE IF index_letter.py # "str"
    THEN Raised(AttributeError("object has no attribute islower", "index_letter"))
    ELSE Returned(is_prime_divisors(a, index_letter))

\* the validations of is_prime_divisors, then its body
call_is_prime_divisors(a, index_letter) ==
    IF index_letter.py \notin {"str", "dict", "list"}
    THEN Raised(TypeError("object has no len()", "index_letter"))
    ELSE IF (CASE index_letter.py = "str" -> Len(index_letter.s)
               [] index_letter.py = "dict" -> Len(index_letter.items)
               [] OTHER -> Len(index_letter.elems)) # 1
    THEN Raised(ValidationError("index_letter"))
    ELSE IF index_letter.py # "str"
    THEN Raised(AttributeError("object has no attribute islower", "index_letter"))
    ELSE IF index_letter.s[1] \notin LowerLetters
    THEN Raised(ValidationError("index_letter"))
    ELSE Returned(is_prime_divisors(a, index_letter))

\* the body of method on bound arguments
Body(variant, method, kwds) ==
    LET a == Arg(kwds, "a", NoneV)
        b == Arg(kwds, "b", NoneV)
        lo == Arg(kwds, "lo", NoneV)
        hi == Arg(kwds, "hi", NoneV)
        k == Arg(kwds, "index_letter", StrV(<<"k">>))
        indicator == Arg(kwds, "indicator", NoneV)
    IN  CASE method = "LatexExpr.__init__" ->
                Raised(AttributeError("object has no attribute _expression", "self"))
          [] method = "Indicator.__init__" ->
                Raised(TypeError("super(type, obj): obj must be an instance or subtype of type",
                                 "self"))
          [] method = "LatexExpr.compose" ->
                IF variant = "prog2math" THEN Returned(compose(a, b))
                ELSE Raised(NoOperands("expression"))
          [] method \in {"Indicator.logical_and", "Indicator.logical_or"} ->
                Raised(NoOperands("indicator"))
          [] method = "Indicator.logical_not" -> Returned(logical_not(indicator))
          [] method = "Indicator.are_not_equal" -> Returned(are_not_equal(a, b))
          [] method = "Indicator.are_equal" -> Returned(are_equal(a, b))
          [] method = "Indicator.is_non_negative" -> Returned(is_non_negative(a))
          [] method = "Indicator.less_than_or_equal" -> Returned(less_than_or_equal(a, b))
          [] method = "Indicator.less_than" -> Returned(less_than(a, b))
          [] method = "Indicator.bigger_than_or_equal" -> Returned(bigger_than_or_equal(a, b))
          [] method = "Indicator.bigger_than" -> Returned(bigger_than(a, b))
          [] method = "Indicator.is_integer" -> Returned(is_integer(a))
          [] method = "Indicator.is_natural" ->
                Returned(is_natural(a, Arg(kwds, "include_zero", BoolV(FALSE))))
          [] method = "Indicator.divides" -> Returned(divides(a, b))
          [] method = "Indicator.does_not_divide" -> Returned(does_not_divide(a, b))
          [] method = "Indicator.get_mod" -> Returned(get_mod(a, b))
          [] method = "Indicator.is_prime_divisors" ->
                call_is_prime_divisors(a, Arg(kwds, "index_letter", StrV(<<"i">>)))
          [] method = "Indicator.is_prime_wilson" -> Returned(is_prime_wilson(a))
          [] method = "Indicator.get_post_decimal_point_digit" ->
                IF variant = "prog2math" THEN Returned(get_post_decimal_point_digit(a, b))
                ELSE Raised(NameError("LocalExpr"))
          [] method = "Indicator.all_in_range" -> Returned(all_in_range(lo, hi, indicator, k))
          [] method = "Indicator.count_in_range" -> Returned(count_in_range(lo, hi, indicator, k))
          [] method = "Indicator.is_range_at_least_exp" ->
                Returned(is_range_at_least_exp(lo, hi, Arg(kwds, "n", NoneV), indicator, k))
          [] OTHER -> Raised(TypeError("not callable", method))

\* the call of method with the keyword arguments kwds
Call(variant, method, kwds) ==
    LET bind == BindError(Signature(variant, method), kwds)
    IN  IF bind # NoExc THEN Raised(bind) ELSE Body(variant, method, kwds)

(***************************************************************************)
(* create_expr_by_reflection, one argument at a time                       *)
(***************************************************************************)
\* the annotation given as a str, from what _get_class_from_name returned
resolved_by_name(got) ==
    [annotation |-> got.result, raised |-> got.raised,
     methods |-> got.methods, classes |-> got.classes, built_now |-> got.built_now]

\* the annotation as the builder resolves it: a class of the LatexExpr family
\* (StrV of its name) or None; issubclass raises on typing.Union
resolve_annotation(variant, methods, classes, ann) ==
    CASE ann.a = "string" ->
            resolved_by_name(get_class_from_name(variant, methods, classes, ann.name, FALSE))
      [] ann.a = "union" ->
            [annotation |-> NoneV, raised |-> TypeError("issubclass() arg 1 must be a class", ""),
             methods |-> methods, classes |-> classes, built_now |-> FALSE]
      [] ann.a = "class" /\ ann.name \in {"LatexExpr", "Indicator"} ->
            [annotation |-> StrV(ann.name), raised |-> NoExc,
             methods |-> methods, classes |-> classes, built_now |-> FALSE]
      [] OTHER ->
            [annotation |-> NoneV, raised |-> NoExc, methods |-> methods, classes |-> classes,
             built_now |-> FALSE]

\* isinstance(arg_val, float) or isinstance(arg_val, int) or isinstance(arg_val, str);
\* a bool is an int
is_scalar(arg_val) == arg_val.py \in {"float", "int", "bool", "str"}

\* a scalar that is passed on as it is
lift_scalar_raw(arg_val) == arg_val

\* what a scalar becomes for a parameter of the LatexExpr family
lift_scalar(arg_val) == LatexExpr(arg_val)

\* the second assertion as len(arg_val) >= 1
check_compound_nonempty(arg_name, arg_val) ==
    IF arg_val.py # "dict" THEN NotCompound(arg_name)
    ELSE IF Len(arg_val.items) < 1 THEN MalformedArgument(arg_name)
    ELSE NoExc

\* the second assertion as 1 <= len(arg_val) <= 2
check_compound_up_to_two(arg_name, arg_val) ==
    IF arg_val.py # "dict" THEN NotCompound(arg_name)
    ELSE IF Len(arg_val.items) \notin {1, 2} THEN MalformedArgument(arg_name)
    ELSE NoExc

\* the two assertions on a compound argument: the exception raised, or NoExc
check_compound(arg_name, arg_val) ==
    IF arg_val.py # "dict" THEN NotCompound(arg_name)
    ELSE IF Len(arg_val.items) # 1 THEN MalformedArgument(arg_name)
    ELSE NoExc

\* the loop body after "resolve annotation", res: the value is lifted, recursed
\* on or taken as it is
handle_resolved_arg(res, kwds, arg_name, arg_val) ==
    LET caches == [methods |-> res.methods, classes |-> res.classes,
                   built_now |-> res.built_now]
    IN  IF res.raised # NoExc
        THEN [do |-> "raise", raised |-> res.raised, lifted |-> FALSE] @@ caches
        ELSE IF res.annotation # NoneV
        THEN IF is_scalar(arg_val)
             THEN [do |-> "set", val |-> lift_scalar(arg_val), lifted |-> TRUE] @@ caches
             ELSE IF check_compound(arg_name, arg_val) # NoExc
             THEN [do |-> "raise", raised |-> check_compound(arg_name, arg_val),
                   lifted |-> FALSE] @@ caches
             ELSE IF HasKey(kwds, arg_name)
             THEN [do |-> "raise", raised |-> ArgumentNotUnique(arg_name),
                   lifted |-> FALSE] @@ caches
             ELSE [do |-> "recurse", key |-> arg_val.items[1].k,
                   args |-> arg_val.items[1].v, lifted |-> FALSE] @@ caches
        ELSE IF HasKey(kwds, arg_name)
        THEN [do |-> "raise", raised |-> ArgumentNotUnique(arg_name),
              lifted |-> FALSE] @@ caches
        ELSE [do |-> "set", val |-> arg_val, lifted |-> FALSE] @@ caches

\* the loop body for an entry whose name is a parameter
handle_declared_arg(variant, methods, classes, method, kwds, arg_name, arg_val) ==
    handle_resolved_arg(
        resolve_annotation(variant, methods, classes,
                           ParamOf(Signature(variant, method), arg_name).ann),
        kwds, arg_name, arg_val)

\* a loop body that passes on the entries whose name is not a parameter
handle_arg_unverified(variant, methods, classes, method, kwds, arg_name, arg_val) ==
    IF ~HasParam(Signature(variant, method), arg_name)
    THEN [do |-> "set", val |-> arg_val, lifted |-> FALSE,
          methods |-> methods, classes |-> classes, built_now |-> FALSE]
    ELSE handle_declared_arg(variant, methods, classes, method, kwds, arg_name, arg_val)

\* the body of the loop over expr_method_args.items() for one (arg_name, arg_val):
\* do is "raise", "set" (kwds[arg_name] = val) or "recurse" (on key and args)
handle_arg(variant, methods, classes, method, kwds, arg_name, arg_val) ==
    IF ~HasParam(Signature(variant, method), arg_name)
    THEN [do |-> "raise", raised |-> UnknownArgument(arg_name), lifted |-> FALSE,
          methods |-> methods, classes |-> classes, built_now |-> FALSE]
    ELSE handle_declared_arg(variant, methods, classes, method, kwds, arg_name, arg_val)

\* one activation of create_expr_by_reflection: at "get_method" before line 373,
\* at "args" in the loop with i items done
Frame(expr_method_name, expr_method_args) ==
    [expr_method_name |-> expr_method_name, expr_method_args |-> expr_method_args,
     method |-> "", at |-> "get_method", i |-> 0, kwds |-> <<>>]

(***************************************************************************)
(* The inputs: what json.load returns for the input file, or Unreadable    *)
(* when opening or decoding it raises                                      *)
(***************************************************************************)
MaxDepth == 3

Unreadable == [py |-> "unreadable"]

\* {name: args}
Node(name, args) == DictV(<<Item(name, args)>>)

\* the dicts over some of the keys, in every order, with values of vals
ArgMaps(keys, vals) ==
    LET pairs == keys \X vals
        seqs == UNION {[1..n -> pairs] : n \in 0..Cardinality(keys)}
    IN  {DictV([i \in 1..Len(s) |-> Item(s[i][1], s[i][2])]) :
            s \in {t \in seqs : \A i, j \in 1..Len(t) : i # j => t[i][1] # t[j][1]}}

TwoEntries ==
    DictV(<<Item("is_integer", DictV(<<Item("a", StrV(<<"n">>))>>)),
            Item("logical_not", DictV(<<Item("indicator", StrV(<<"n">>))>>))>>)

\* values of an argument: scalars, dicts of no, one and two entries
ShallowVals ==
    {StrV(<<"n">>), IntV(0), DictV(<<>>), TwoEntries,
     Node("is_integer", DictV(<<Item("a", StrV(<<"n">>))>>)),
     Node("no_such_op", DictV(<<>>))}

\* every dict over the parameters of an operation and the undeclared c
BreadthInputs ==
    {Node("are_equal", args) : args \in ArgMaps({"a", "b", "c"}, ShallowVals)}
    \cup {Node("is_natural", args) : args \in ArgMaps({"a", "include_zero", "c"}, ShallowVals)}

\* nodes nested to a depth of at most d below an argument
ChainOps == {<<"logical_not", "indicator">>, <<"is_integer", "a">>, <<"no_such_op", "a">>}
RECURSIVE ChainVals(_)
ChainVals(d) ==
    IF d = 0 THEN {StrV(<<"n">>), IntV(-12), DictV(<<>>)}
    ELSE ChainVals(0)
         \cup {Node(op[1], DictV(<<Item(op[2], v)>>)) : op \in ChainOps, v \in ChainVals(d - 1)}
ChainInputs == {v \in ChainVals(MaxDepth) : v.py = "dict" /\ Len(v.items) = 1}

\* the names of the registry, and one name that is not in it
RegistryNames ==
    {"Indicator", "LatexExpr", "all_in_range", "are_equal", "are_not_equal", "bigger_than",
     "bigger_than_or_equal", "compose", "count_in_range", "divides", "does_not_divide",
     "get_mod", "get_post_decimal_point_digit", "is_integer", "is_natural", "is_non_negative",
     "is_prime_divisors", "is_prime_wilson", "is_range_at_least_exp", "less_than",
     "less_than_or_equal", "logical_and", "logical_not", "logical_or"}

\* a well-formed value for a parameter, by its name
SampleArg(name) ==
    CASE name = "a" -> StrV(<<"x">>)
      [] name = "b" -> StrV(<<"y">>)
      [] name = "lo" -> IntV(1)
      [] name = "hi" -> StrV(<<"m">>)
      [] name = "n" -> IntV(2)
      [] name = "indicator" -> Node("is_integer", DictV(<<Item("a", StrV(<<"j">>))>>))
      [] name = "index_letter" -> StrV(<<"j">>)
      [] name = "include_zero" -> BoolV(TRUE)
      [] name = "expression" -> StrV(<<"e">>)
      [] name = "self" -> StrV(<<"s">>)
      [] OTHER -> ListV(<<Node("is_integer", DictV(<<Item("a", StrV(<<"x">>))>>)),
                         Node("is_integer", DictV(<<Item("a", StrV(<<"y">>))>>))>>)

\* the objects the names are registered for, so that samples can be drawn up
MethodOfName(name) ==
    CASE name = "Indicator" -> "Indicator.__init__"
      [] name = "LatexExpr" -> "LatexExpr.__init__"
      [] name = "compose" -> "LatexExpr.compose"
      [] OTHER -> "Indicator." \o name

\* each name with all its parameters, and with its required parameters only
SampleArgs(variant, name, all) ==
    LET params == Signature(variant, MethodOfName(name))
        chosen == SelectSeq(params, LAMBDA q : all \/ q.required)
    IN  DictV([i \in 1..Len(chosen) |-> Item(chosen[i].name, SampleArg(chosen[i].name))])
WellFormedInputs ==
    {Node(name, SampleArgs(variant, name, all)) :
        name \in RegistryNames, variant \in Variants, all \in BOOLEAN}

\* the builder scenario: logical_and of is_integer(n) and bigger_than(n, 0)
ScenarioInput ==
    Node("logical_and",
         DictV(<<Item("indicators",
                      ListV(<<Node("is_integer", DictV(<<Item("a", StrV(<<"n">>))>>)),
                              Node("bigger_than", DictV(<<Item("a", StrV(<<"n">>)),
                                                          Item("b", IntV(0))>>))>>))>>))

IndexLetters ==
    {StrV(<<"i">>), StrV(<<"z">>), StrV(<<"I">>), StrV(<<"1">>), StrV(<<"$">>), StrV(<<>>),
     StrV(<<"a", "b">>), StrV(<<"a", "B">>), IntV(5),
     FloatV(<<"0", ".", "5">>),
     DictV(<<>>), Node("x", IntV(1)), TwoEntries, ListV(<<StrV(<<"i">>)>>)}

\* arguments that are neither scalars nor nodes, and raw arguments of every shape
OddInputs ==
    {Node("is_integer", DictV(<<Item("a", v)>>)) :
        v \in {ListV(<<StrV(<<"n">>)>>), NoneV, BoolV(TRUE), FloatV(<<"1", ".", "5">>)}}
    \cup {Node("is_integer", v) : v \in {StrV(<<"a", "b">>), ListV(<<>>)}}
    \cup {Node("is_prime_divisors", DictV(<<Item("a", StrV(<<"p">>)), Item("index_letter", v)>>)) :
            v \in IndexLetters}
    \cup {Node("count_in_range",
               DictV(<<Item("lo", IntV(1)), Item("hi", IntV(2)),
                       Item("indicator", StrV(<<"t">>)), Item("index_letter", v)>>)) :
            v \in IndexLetters}
    \cup {Node("no_such_op", v) : v \in {DictV(<<>>), StrV(<<"n">>)}}

\* roots that are not a dict of one entry
RootShapes ==
    {Unreadable, DictV(<<>>), TwoEntries, ListV(<<StrV(<<"n">>)>>), ListV(<<>>),
     StrV(<<"n">>), IntV(5), FloatV(<<"1", ".", "5">>), NoneV}

Inputs ==
    BreadthInputs \cup ChainInputs \cup WellFormedInputs \cup {ScenarioInput}
    \cup OddInputs \cup RootShapes

\* the command lines: prog2math.py with or without -q, math_prog.py with -o - or -o file
CommandLines ==
    {[variant |-> "prog2math", quiet |-> q, output_file |-> "-"] : q \in BOOLEAN}
    \cup {[variant |-> "math_prog", quiet |-> FALSE, output_file |-> o] : o \in {"-", "file"}}

(***************************************************************************)
(* The state of one run of the program                                     *)
(***************************************************************************)
VARIABLES
    args,                   \* the parsed command line
    input,                  \* the content of the input file
    pc,                     \* where main is: "start", "build", "returned", "raised", "exit"
    stack,                  \* the activations of create_expr_by_reflection, the last on top
    retval,                 \* what the outermost create_expr_by_reflection returned
    exc,                    \* the exception being propagated
    stdout,                 \* what was printed
    stderr,                 \* the tracebacks the interpreter wrote
    out_file,               \* the content written to the output file
    exit_status,            \* the exit status
    METHOD_NAMES_MAPPING,   \* LoadingUtils._METHOD_NAMES_MAPPING
    CLASS_NAMES_MAPPING,    \* LoadingUtils._CLASS_NAMES_MAPPING
    log,                    \* history: the runs of _build_cache ("build_cache"), the
                            \* lookups ("get_method"), the lifts of scalars ("lift") and
                            \* the calls of methods ("call") so far, each with the depth
                            \* of the activation that made it
    reading                 \* the formula as far as it has been read

vars == <<args, input, pc, stack, retval, exc, stdout, stderr, out_file, exit_status,
          METHOD_NAMES_MAPPING, CLASS_NAMES_MAPPING, log, reading>>

Top == stack[Len(stack)]
Event(ev, name, depth) == [ev |-> ev, name |-> name, depth |-> depth]

\* the history after a lookup: a run of _build_cache is recorded
Built(history, built_now) ==
    IF built_now THEN Append(history, Event("build_cache", "", Len(stack))) ELSE history

\* the state of the interpreter before main runs
Init ==
    /\ args \in CommandLines
    /\ input \in Inputs
    /\ pc = "start"
    /\ stack = <<>>
    /\ retval = NoneV
    /\ exc = NoExc
    /\ stdout = <<>>
    /\ stderr = <<>>
    /\ out_file = NoneV
    /\ exit_status = NoneV
    /\ METHOD_NAMES_MAPPING = NoneV
    /\ CLASS_NAMES_MAPPING = NoneV
    /\ log = <<>>
    /\ reading = <<>>

\* an exception leaves create_expr_by_reflection, which has no handler
Propagate(e) ==
    /\ exc' = e
    /\ pc' = "raised"
    /\ stack' = <<>>

\* the assertion of main as len(input_dict) >= 1
load_error_nonempty(input_dict) ==
    IF input_dict = Unreadable THEN Exc("OSError", "cannot open or decode the input file", "")
    ELSE IF input_dict.py \notin {"dict", "list", "str"}
    THEN TypeError("object has no len()", "input_dict")
    ELSE IF (CASE input_dict.py = "dict" -> Len(input_dict.items)
               [] input_dict.py = "list" -> Len(input_dict.elems)
               [] OTHER -> Len(input_dict.s)) < 1
    THEN MalformedInput
    ELSE IF input_dict.py # "dict"
    THEN AttributeError("object has no attribute keys", "input_dict")
    ELSE NoExc

\* the exception main raises before it calls the builder, or NoExc
load_error(input_dict) ==
    IF input_dict = Unreadable THEN Exc("OSError", "cannot open or decode the input file", "")
    ELSE IF input_dict.py \notin {"dict", "list", "str"}
    THEN TypeError("object has no len()", "input_dict")
    ELSE IF (CASE input_dict.py = "dict" -> Len(input_dict.items)
               [] input_dict.py = "list" -> Len(input_dict.elems)
               [] OTHER -> Len(input_dict.s)) # 1
    THEN MalformedInput
    ELSE IF input_dict.py # "dict"
    THEN AttributeError("object has no attribute keys", "input_dict")
    ELSE NoExc

\* main up to its call of create_expr_by_reflection
MainStart ==
    /\ pc = "start"
    /\ stdout' = IF args.variant = "prog2math" /\ ~args.quiet
                 THEN <<[what |-> "logo", text |-> <<>>]>> ELSE <<>>
    /\ IF load_error(input) # NoExc
       THEN Propagate(load_error(input))
       ELSE /\ pc' = "build"
            /\ stack' = <<Frame(input.items[1].k, input.items[1].v)>>
            /\ exc' = NoExc
    /\ UNCHANGED <<args, input, retval, stderr, out_file, exit_status,
                   METHOD_NAMES_MAPPING, CLASS_NAMES_MAPPING, log, reading>>

\* create_expr_by_reflection from its entry to the head of its loop
GetMethod ==
    /\ pc = "build" /\ Len(stack) > 0 /\ Top.at = "get_method"
    /\ LET got == get_method_from_name(args.variant, METHOD_NAMES_MAPPING, CLASS_NAMES_MAPPING,
                                       Top.expr_method_name, TRUE)
       IN  /\ METHOD_NAMES_MAPPING' = got.methods
           /\ CLASS_NAMES_MAPPING' = got.classes
           /\ log' = Append(Built(log, got.built_now),
                            Event("get_method", Top.expr_method_name, Len(stack)))
           /\ IF got.raised # NoExc
              THEN Propagate(got.raised)
              ELSE IF Top.expr_method_args.py # "dict"
              THEN Propagate(AttributeError("object has no attribute items", "expr_method_args"))
              ELSE /\ stack' = [stack EXCEPT ![Len(stack)] =
                                   [@ EXCEPT !.method = got.result.s, !.at = "args"]]
                   /\ UNCHANGED <<pc, exc>>
    /\ UNCHANGED <<args, input, retval, stdout, stderr, out_file, exit_status, reading>>

\* one turn of the loop over expr_method_args.items()
HandleArg ==
    /\ pc = "build" /\ Len(stack) > 0 /\ Top.at = "args"
    /\ Top.i < Len(Top.expr_method_args.items)
    /\ LET item == Top.expr_method_args.items[Top.i + 1]
           out == handle_arg(args.variant, METHOD_NAMES_MAPPING, CLASS_NAMES_MAPPING,
                             Top.method, Top.kwds, item.k, item.v)
       IN  /\ METHOD_NAMES_MAPPING' = out.methods
           /\ CLASS_NAMES_MAPPING' = out.classes
           /\ log' = IF out.lifted
                     THEN Append(Built(log, out.built_now), Event("lift", item.k, Len(stack)))
                     ELSE Built(log, out.built_now)
           /\ CASE out.do = "raise" -> Propagate(out.raised)
                [] out.do = "set" ->
                     /\ stack' = [stack EXCEPT ![Len(stack)] =
                                     [@ EXCEPT !.kwds = SetItem(@, item.k, out.val),
                                               !.i = @ + 1]]
                     /\ UNCHANGED <<pc, exc>>
                [] OTHER ->
                     /\ stack' = Append(stack, Frame(out.key, out.args))
                     /\ UNCHANGED <<pc, exc>>
    /\ UNCHANGED <<args, input, retval, stdout, stderr, out_file, exit_status, reading>>

\* the call of the method after the loop, and the return to the caller
RunMethod ==
    /\ pc = "build" /\ Len(stack) > 0 /\ Top.at = "args"
    /\ Top.i = Len(Top.expr_method_args.items)
    /\ LET res == Call(args.variant, Top.method, Top.kwds)
           n == Len(stack)
       IN  /\ log' = Append(log, Event("call", Top.method, n))
           /\ IF res.raised # NoExc
              THEN Propagate(res.raised) /\ UNCHANGED retval
              ELSE IF n = 1
              THEN /\ retval' = res.val
                   /\ pc' = "returned"
                   /\ stack' = <<>>
                   /\ UNCHANGED exc
              ELSE LET caller == stack[n - 1]
                       arg_name == caller.expr_method_args.items[caller.i + 1].k
                   IN  /\ stack' = [SubSeq(stack, 1, n - 1) EXCEPT ![n - 1] =
                                       [@ EXCEPT !.kwds = SetItem(@, arg_name, res.val),
                                                 !.i = @ + 1]]
                       /\ UNCHANGED <<pc, exc, retval>>
    /\ UNCHANGED <<args, input, stdout, stderr, out_file, exit_status,
                   METHOD_NAMES_MAPPING, CLASS_NAMES_MAPPING, reading>>

\* main after the builder returned: the expression is written, the run ends
MainWrite ==
    /\ pc = "returned"
    /\ IF args.variant = "math_prog" /\ args.output_file # "-"
       THEN out_file' = StrV(Str(retval)) /\ UNCHANGED stdout
       ELSE /\ stdout' = Append(stdout, [what |-> "formula", text |-> Str(retval)])
            /\ UNCHANGED out_file
    /\ exit_status' = IntV(0)
    /\ pc' = "exit"
    /\ UNCHANGED <<args, input, stack, retval, exc, stderr,
                   METHOD_NAMES_MAPPING, CLASS_NAMES_MAPPING, log, reading>>

\* main when an exception reaches it.  prog2math.py catches it: in quiet mode
\* it exits with -1; otherwise its handler formats the undefined name
\* exception, which raises NameError out of main.  math_prog.py has no handler.
MainExcept ==
    /\ pc = "raised"
    /\ IF args.variant = "prog2math" /\ args.quiet
       THEN exit_status' = IntV(-1) /\ UNCHANGED <<stderr, exc>>
       ELSE IF args.variant = "prog2math"
       THEN /\ exc' = NameError("exception")
            /\ stderr' = Append(stderr, [what |-> "traceback", exc |-> "NameError"])
            /\ exit_status' = IntV(1)
       ELSE /\ stderr' = Append(stderr, [what |-> "traceback", exc |-> exc.exc])
            /\ exit_status' = IntV(1)
            /\ UNCHANGED exc
    /\ pc' = "exit"
    /\ UNCHANGED <<args, input, stack, retval, stdout, out_file,
                   METHOD_NAMES_MAPPING, CLASS_NAMES_MAPPING, log, reading>>

Next ==
    \/ MainStart
    \/ GetMethod
    \/ HandleArg
    \/ RunMethod
    \/ MainWrite
    \/ MainExcept

Spec == Init /\ [][Next]_vars

(***************************************************************************)
(* _add_to_cache on its own: from the empty mapping of _build_cache, any   *)
(* sequence of registrations, until one raises                             *)
(***************************************************************************)
MaxRegistrations == 4

CacheNames == {"Indicator", "compose", "get_mod", "is_integer"}
CacheObjects == {"Indicator.__init__", "LatexExpr.compose", "Indicator.get_mod"}

InitCache ==
    /\ args \in {c \in CommandLines : c.quiet}
    /\ input = NoneV
    /\ pc = "build_cache"
    /\ stack = <<>>
    /\ retval = NoneV
    /\ exc = NoExc
    /\ stdout = <<>>
    /\ stderr = <<>>
    /\ out_file = NoneV
    /\ exit_status = NoneV
    /\ METHOD_NAMES_MAPPING = DictV(<<>>)
    /\ CLASS_NAMES_MAPPING = DictV(<<>>)
    /\ log = <<>>
    /\ reading = <<>>

\* one call of _add_to_cache(method_name, method_obj)
AddToCache ==
    /\ pc = "build_cache"
    /\ Len(log) < MaxRegistrations
    /\ \E method_name \in CacheNames, method_obj \in CacheObjects :
          LET added == add_to_cache(METHOD_NAMES_MAPPING.items, method_name, method_obj)
          IN  /\ METHOD_NAMES_MAPPING' = DictV(added.methods)
              /\ exc' = added.raised
              /\ pc' = IF added.raised # NoExc THEN "raised" ELSE pc
              /\ log' = Append(log, [ev |-> "add_to_cache", name |-> method_name,
                                      obj |-> method_obj])
    /\ UNCHANGED <<args, input, stack, retval, stdout, stderr, out_file, exit_status,
                   CLASS_NAMES_MAPPING, reading>>

NextCache == AddToCache

SpecCache == InitCache /\ [][NextCache]_vars

(***************************************************************************)
(* What the properties speak of                                            *)
(***************************************************************************)
RootIsNode == input.py = "dict" /\ Len(input.items) = 1
RootName == input.items[1].k
RootArgs == input.items[1].v
Last(seq) == seq[Len(seq)]

\* the parameter arg_name of method is annotated with LatexExpr or Indicator,
\* as the class or by its name
ExpressionKind(variant, method, arg_name) ==
    LET ann == ParamOf(Signature(variant, method), arg_name).ann
    IN  ann.a \in {"string", "class"} /\ ann.name \in {"LatexExpr", "Indicator"}

Declared(variant, method, arg_name) == HasParam(Signature(variant, method), arg_name)

\* the entries of the arguments of the node name that hold nodes for
\* parameters of the LatexExpr family
NestedNodes(variant, name, node_args) ==
    IF name \notin RegistryNames \/ node_args.py # "dict" THEN {}
    ELSE {i \in 1..Len(node_args.items) :
             /\ Declared(variant, MethodOfName(name), node_args.items[i].k)
             /\ ExpressionKind(variant, MethodOfName(name), node_args.items[i].k)
             /\ node_args.items[i].v.py = "dict"
             /\ Len(node_args.items[i].v.items) = 1}

RECURSIVE HasUnregistered(_, _, _)
\* the node name, or a node nested in it at any depth, names no operation of the registry
HasUnregistered(variant, name, node_args) ==
    \/ name \notin RegistryNames
    \/ \E i \in NestedNodes(variant, name, node_args) :
          HasUnregistered(variant, node_args.items[i].v.items[1].k,
                          node_args.items[i].v.items[1].v)

\* C1 as stated: whenever the root or a nested operation name is not in the
\* registry, the build fails with OperationNotFound
C1_AlwaysOperationNotFound ==
    (pc \in {"returned", "raised"} /\ RootIsNode
     /\ HasUnregistered(args.variant, RootName, RootArgs))
    => (pc = "raised" /\ exc.msg = "Method not found")

\* C1 as amended: a build over a call graph with an unregistered operation name
\* at the root or in a nested node always fails and returns nothing; the error
\* is OperationNotFound for that name when the name is the root's, and whenever
\* the builder reaches the lookup of the name (an error raised earlier in the
\* traversal is the one reported otherwise)
C1_UnregisteredFails ==
    /\ (pc \in {"returned", "raised"} /\ RootIsNode
        /\ HasUnregistered(args.variant, RootName, RootArgs))
       => (pc = "raised" /\ exc # NoExc /\ retval = NoneV)
    /\ (pc = "raised" /\ RootIsNode /\ RootName \notin RegistryNames)
       => exc = OperationNotFound(RootName)
    /\ (pc = "raised" /\ Len(log) > 0 /\ Last(log).ev = "get_method"
        /\ Last(log).name \notin RegistryNames)
       => exc = OperationNotFound(Last(log).name)
    /\ (pc = "build" /\ Len(log) > 0 /\ Last(log).ev = "get_method")
       => Last(log).name \in RegistryNames

\* an unregistered name two levels below the root was looked up and raised
C1_Witness ==
    /\ pc = "raised" /\ Len(log) > 0
    /\ Last(log).ev = "get_method" /\ Last(log).depth = 3
    /\ exc = OperationNotFound("no_such_op")

\* the activation f has resolved its method and its arguments hold a key
\* that is not a parameter of the method
HasUndeclaredKey(variant, f) ==
    /\ f.at = "args"
    /\ \E i \in 1..Len(f.expr_method_args.items) :
          ~Declared(variant, f.method, f.expr_method_args.items[i].k)

\* C2 as stated: the names of all entries are verified before any argument is
\* materialized: a call whose arguments hold an undeclared key has materialized
\* no argument and resolved no nested operation, and it fails with
\* UnknownArgument
C2_VerifiedBeforeAnyArgument ==
    /\ \A d \in 1..Len(stack) :
          HasUndeclaredKey(args.variant, stack[d]) => (stack[d].i = 0 /\ d = Len(stack))
    /\ (pc \in {"returned", "raised"} /\ RootIsNode /\ RootName \in RegistryNames
        /\ RootArgs.py = "dict"
        /\ \E i \in 1..Len(RootArgs.items) :
              ~Declared(args.variant, MethodOfName(RootName), RootArgs.items[i].k))
       => (pc = "raised" /\ exc.msg = "Argument not found for method")

\* the builder is about to handle an entry whose key is not a parameter
AtUndeclaredKey ==
    /\ pc = "build" /\ Len(stack) > 0 /\ Top.at = "args"
    /\ Top.i < Len(Top.expr_method_args.items)
    /\ ~Declared(args.variant, Top.method, Top.expr_method_args.items[Top.i + 1].k)

RECURSIVE AllDeclared(_, _, _)
\* every key of the arguments of the node name, and of the nodes nested in it,
\* is a parameter of the operation it is given to
AllDeclared(variant, name, node_args) ==
    \/ name \notin RegistryNames
    \/ node_args.py # "dict"
    \/ /\ \A i \in 1..Len(node_args.items) :
             Declared(variant, MethodOfName(name), node_args.items[i].k)
       /\ \A i \in NestedNodes(variant, name, node_args) :
             AllDeclared(variant, node_args.items[i].v.items[1].k,
                         node_args.items[i].v.items[1].v)

\* C2 as amended: the name of an entry is verified when the builder reaches
\* the entry, in the order of the map, after the entries before it were
\* materialized: the step that reaches an undeclared key raises
\* UnknownArgument for that key, without calling the operation, looking up a
\* nested operation or materializing that entry or a later one; and no build
\* over arguments with an undeclared key returns
C2_VerifiedWhenReached ==
    /\ [][AtUndeclaredKey =>
            /\ pc' = "raised"
            /\ exc' = UnknownArgument(Top.expr_method_args.items[Top.i + 1].k)
            /\ log' = log
            /\ retval' = retval]_vars
    /\ [](pc = "returned" => AllDeclared(args.variant, RootName, RootArgs))

\* UnknownArgument was raised after a nested operation of the same call had
\* been looked up and called
C2_Witness ==
    /\ pc = "raised" /\ exc = UnknownArgument("c")
    /\ Len(log) > 2
    /\ Last(log).ev = "call" /\ Last(log).depth = 2

\* C3: the build of the builder scenario, logical_and over a list of two
\* nested nodes, raises no error and returns an Expression
C3_ScenarioBuilds ==
    (input = ScenarioInput /\ pc \in {"returned", "raised"})
    => (pc = "returned" /\ exc = NoExc /\ IsExpr(retval))

\* the root is a registered name with well-formed arguments for all of its
\* parameters, or for those without a default
WellFormedRoot ==
    /\ RootIsNode
    /\ RootName \in RegistryNames
    /\ \E all \in BOOLEAN : RootArgs = SampleArgs(args.variant, RootName, all)

\* C4: every registered operation, invoked by the builder with well-formed
\* arguments for its declared parameters, returns an Expression: never a bare
\* string, nothing or an error, in both variants
C4_RegisteredReturnExpression ==
    (WellFormedRoot /\ pc \in {"returned", "raised"})
    => (pc = "returned" /\ exc = NoExc /\ IsExpr(retval))

\* op occurs in text at position p
OccursAt(text, op, p) ==
    /\ p + Len(op) - 1 <= Len(text)
    /\ SubSeq(text, p, p + Len(op) - 1) = op

\* the occurrence of op at p is wrapped in a \left( \right) pair of its own
GroupedAt(text, op, p) ==
    /\ p > 1 /\ text[p - 1] = LP
    /\ p + Len(op) <= Len(text) /\ text[p + Len(op)] = RP

\* the entries of the root's arguments that are texts for parameters of the
\* LatexExpr family: the operands of the root operation
RootOperands ==
    {i \in 1..Len(RootArgs.items) :
        /\ RootArgs.items[i].v.py = "str"
        /\ Len(RootArgs.items[i].v.s) > 0
        /\ ExpressionKind(args.variant, MethodOfName(RootName), RootArgs.items[i].k)}

\* C5: in the text an operation of the Indicator algebra produces, every
\* occurrence of the text of every operand is enclosed in a \left( \right)
\* pair that wraps exactly that operand
C5_EveryOperandGrouped ==
    (pc = "returned" /\ RootName \notin {"compose", "LatexExpr", "Indicator"})
    => \A i \in RootOperands :
          \A p \in 1..Len(Str(retval)) :
              OccursAt(Str(retval), RootArgs.items[i].v.s, p)
              => GroupedAt(Str(retval), RootArgs.items[i].v.s, p)

\* the entry the loop of the top activation handles next
NextItem == Top.expr_method_args.items[Top.i + 1]

\* the builder is about to handle an entry of a parameter of the LatexExpr family
AtExpressionArg ==
    /\ pc = "build" /\ Len(stack) > 0 /\ Top.at = "args"
    /\ Top.i < Len(Top.expr_method_args.items)
    /\ Declared(args.variant, Top.method, NextItem.k)
    /\ ExpressionKind(args.variant, Top.method, NextItem.k)

\* C6: for a parameter of the Expression kind whose argument value is a map,
\* the builder recurses on the single entry of the map when it has exactly
\* one entry, and fails with MalformedArgument, without invoking the outer
\* operation, when the map has no entry or more than one
C6_RecurseOnSingleEntry ==
    [][(AtExpressionArg /\ NextItem.v.py = "dict") =>
          IF Len(NextItem.v.items) = 1
          THEN /\ stack' = Append(stack, Frame(NextItem.v.items[1].k, NextItem.v.items[1].v))
               /\ pc' = "build" /\ exc' = NoExc
               /\ log' = log
          ELSE /\ pc' = "raised"
               /\ exc' = MalformedArgument(NextItem.k)
               /\ stack' = <<>>
               /\ log' = log
               /\ retval' = NoneV]_vars

\* a map of two entries was refused after the map of one entry before it had
\* been recursed on and built
C6_Witness ==
    /\ pc = "raised" /\ exc = MalformedArgument("b")
    /\ Len(log) > 0
    /\ Last(log) = Event("call", "Indicator.is_integer", 2)

RECURSIVE AllMapsSingle(_, _, _)
\* every argument value of the node name that is a map has exactly one entry,
\* whatever its parameter, and so in the nodes nested in it
AllMapsSingle(variant, name, node_args) ==
    \/ name \notin RegistryNames
    \/ node_args.py # "dict"
    \/ /\ \A i \in 1..Len(node_args.items) :
             node_args.items[i].v.py = "dict" => Len(node_args.items[i].v.items) = 1
       /\ \A i \in NestedNodes(variant, name, node_args) :
             AllMapsSingle(variant, node_args.items[i].v.items[1].k,
                           node_args.items[i].v.items[1].v)

\* C7 as stated: in a build that completes, every map-shaped argument value
\* anywhere in the call graph has exactly one entry, whatever the kind of its
\* parameter
C7_EveryMapSingle ==
    pc = "returned" => AllMapsSingle(args.variant, RootName, RootArgs)

RECURSIVE ExpressionMapsSingle(_, _, _)
\* every argument value of the node name that is a map for a parameter of the
\* Expression kind has exactly one entry, and so in the nodes nested in it
ExpressionMapsSingle(variant, name, node_args) ==
    \/ name \notin RegistryNames
    \/ node_args.py # "dict"
    \/ /\ \A i \in 1..Len(node_args.items) :
             (/\ Declared(variant, MethodOfName(name), node_args.items[i].k)
              /\ ExpressionKind(variant, MethodOfName(name), node_args.items[i].k)
              /\ node_args.items[i].v.py = "dict")
             => Len(node_args.items[i].v.items) = 1
       /\ \A i \in NestedNodes(variant, name, node_args) :
             ExpressionMapsSingle(variant, node_args.items[i].v.items[1].k,
                                  node_args.items[i].v.items[1].v)

\* C7 as amended: in a build that completes, every map-shaped argument value
\* bound to a parameter of the Expression kind, anywhere in the call graph, has
\* exactly one entry: such a map with no or several entries always makes the
\* build fail (a map bound to a raw-kind parameter is taken as it is)
C7_ExpressionMapsSingle ==
    pc = "returned" => ExpressionMapsSingle(args.variant, RootName, RootArgs)

\* a build completed over a nested node and an empty map for a raw parameter
C7_Witness ==
    /\ pc = "returned"
    /\ input = Node("is_natural",
                    DictV(<<Item("a", Node("is_integer", DictV(<<Item("a", StrV(<<"n">>))>>))),
                            Item("include_zero", DictV(<<>>))>>))

\* the number a text of decimal digits with an optional sign denotes, or
\* nothing for any other text
DigitValue(c) == CHOOSE d \in 0..9 : Digit(d) = c
IsDigit(c) == \E d \in 0..9 : Digit(d) = c
RECURSIVE DecimalValue(_)
DecimalValue(text) ==
    IF Len(text) = 1 THEN DigitValue(text[1])
    ELSE 10 * DecimalValue(SubSeq(text, 1, Len(text) - 1)) + DigitValue(text[Len(text)])
IsLiteralOf(text, n) ==
    LET digits == IF n < 0 THEN SubSeq(text, 2, Len(text)) ELSE text
    IN  /\ Len(digits) > 0
        /\ n < 0 => text[1] = "-"
        /\ \A p \in 1..Len(digits) : IsDigit(digits[p])
        /\ Len(digits) > 1 => digits[1] # "0"
        /\ DecimalValue(digits) = (IF n < 0 THEN 0 - n ELSE n)

\* val is a leaf Expression whose text is the literal text of the scalar
IsLeafOf(val, scalar) ==
    /\ val.py = "LatexExpr"
    /\ CASE scalar.py = "str" -> val.expression = scalar.s
         [] scalar.py = "float" -> val.expression = scalar.repr
         [] OTHER -> IsLiteralOf(val.expression, scalar.n)

\* C8: for a parameter of the Expression kind, annotated with the type or with
\* its name, whose argument value is a text or a number, the builder passes the
\* operation a leaf Expression whose text is exactly the literal text of the
\* scalar: handling the scalar looks up no operation and starts no nested
\* build, and the keyword arguments hold the leaf from then on
C8_ScalarLifted ==
    /\ [][(AtExpressionArg /\ NextItem.v.py \in {"str", "int", "float"}) =>
             /\ pc' = "build" /\ exc' = NoExc
             /\ Len(stack') = Len(stack)
             /\ Top'.i = Top.i + 1
             /\ IsLeafOf(Get(Top'.kwds, NextItem.k), NextItem.v)
             /\ log' = Append(log, Event("lift", NextItem.k, Len(stack)))]_vars
    /\ [](\A d \in 1..Len(stack) :
             stack[d].at = "args" =>
                \A j \in 1..stack[d].i :
                    LET item == stack[d].expr_method_args.items[j]
                    IN  (/\ ExpressionKind(args.variant, stack[d].method, item.k)
                         /\ item.v.py \in {"str", "int", "float"})
                        => /\ HasKey(stack[d].kwds, item.k)
                           /\ IsLeafOf(Get(stack[d].kwds, item.k), item.v))

\* the number -12 was lifted for a parameter annotated by name, and the
\* operation is about to be called with the leaf
C8_Witness ==
    /\ pc = "build" /\ Len(stack) = 2
    /\ Top.method = "Indicator.logical_not" /\ Top.i = 1
    /\ Top.kwds = <<Item("indicator",
                         [py |-> "LatexExpr", expression |-> <<"-", "1", "2">>])>>

\* the formula texts the program has output
Formulas ==
    {stdout[j].text : j \in {l \in 1..Len(stdout) : stdout[l].what = "formula"}}
    \cup (IF out_file = NoneV THEN {} ELSE {out_file.s})

CountOf(ev) == Cardinality({j \in 1..Len(log) : log[j].ev = ev})

\* C9: the program outputs a formula only if the root is a map of exactly one
\* entry and the whole recursive build of that entry succeeded (every
\* operation that was looked up was called and returned, the root's last), and
\* then it is the text of the result; for a root map of no or several entries
\* the error is MalformedInput, and after any error no formula text is output
C9_FormulaOnlyAfterBuild ==
    /\ Formulas # {}
       => /\ RootIsNode
          /\ exc = NoExc /\ pc = "exit" /\ stack = <<>>
          /\ Formulas = {Str(retval)}
          /\ CountOf("get_method") = CountOf("call")
          /\ Last(log) = Event("call", MethodOfName(RootName), 1)
    /\ exc # NoExc => Formulas = {}
    /\ (pc = "raised" /\ input.py = "dict" /\ Len(input.items) # 1) => exc = MalformedInput
    /\ (pc = "exit" /\ input.py = "dict" /\ Len(input.items) # 1) => Formulas = {}

\* a formula was written to the output file after a build three levels deep
C9_Witness ==
    /\ pc = "exit" /\ out_file # NoneV
    /\ out_file.s = Str(retval)
    /\ \E j \in 1..Len(log) : log[j].ev = "call" /\ log[j].depth = 3

\* C10: a registration of a name that is mapped to a different operation
\* raises the ConfigurationError and changes nothing; a registration of the
\* operation the name is mapped to changes nothing and raises nothing; a
\* registration of a new name adds it; so every name of the registry is
\* mapped to exactly one operation
C10_RegistrationUnique ==
    /\ [][(pc = "build_cache" /\ log' # log) =>
             LET reg == Last(log')
                 methods == METHOD_NAMES_MAPPING.items
             IN  IF HasKey(methods, reg.name) /\ Get(methods, reg.name) # reg.obj
                 THEN /\ exc' = ConfigurationError(reg.name)
                      /\ pc' = "raised"
                      /\ METHOD_NAMES_MAPPING' = METHOD_NAMES_MAPPING
                 ELSE IF HasKey(methods, reg.name)
                 THEN /\ exc' = NoExc /\ pc' = "build_cache"
                      /\ METHOD_NAMES_MAPPING' = METHOD_NAMES_MAPPING
                 ELSE /\ exc' = NoExc /\ pc' = "build_cache"
                      /\ METHOD_NAMES_MAPPING'.items = Append(methods, Item(reg.name, reg.obj))]_vars
    /\ [](\A i, j \in 1..Len(METHOD_NAMES_MAPPING.items) :
             METHOD_NAMES_MAPPING.items[i].k = METHOD_NAMES_MAPPING.items[j].k => i = j)

\* a name was registered, registered again for the same operation, and then
\* refused for another operation
C10_Witness ==
    /\ pc = "raised" /\ exc = ConfigurationError("compose")
    /\ Len(METHOD_NAMES_MAPPING.items) = 1
    /\ \E i, j \in 1..(Len(log) - 1) : i < j /\ log[i] = log[j] /\ log[i].name = "compose"

\* the number of runs of _build_cache so far
Builds == CountOf("build_cache")

\* the registry holds every operation and both classes
RegistryComplete ==
    /\ {METHOD_NAMES_MAPPING.items[i].k : i \in 1..Len(METHOD_NAMES_MAPPING.items)} = RegistryNames
    /\ Len(METHOD_NAMES_MAPPING.items) = Cardinality(RegistryNames)
    /\ \A i \in 1..Len(METHOD_NAMES_MAPPING.items) :
          METHOD_NAMES_MAPPING.items[i].v = MethodOfName(METHOD_NAMES_MAPPING.items[i].k)
    /\ {CLASS_NAMES_MAPPING.items[i].k : i \in 1..Len(CLASS_NAMES_MAPPING.items)}
          = {"Indicator", "LatexExpr"}
    /\ Len(CLASS_NAMES_MAPPING.items) = 2

\* C11: the registry build runs on the first lookup and at most once; once it
\* is built no later lookup or builder call adds, removes or changes an entry
\* of the names of operations or of types; and a registry that is marked built
\* (not None) is never empty or partly filled
C11_RegistryLifecycle ==
    /\ [][METHOD_NAMES_MAPPING # NoneV =>
             /\ METHOD_NAMES_MAPPING' = METHOD_NAMES_MAPPING
             /\ CLASS_NAMES_MAPPING' = CLASS_NAMES_MAPPING
             /\ Builds' = Builds]_vars
    /\ [](Builds <= 1)
    /\ []((METHOD_NAMES_MAPPING = NoneV) <=> (CLASS_NAMES_MAPPING = NoneV))
    /\ []((METHOD_NAMES_MAPPING = NoneV) <=> (log = <<>>))
    /\ [](METHOD_NAMES_MAPPING # NoneV =>
             /\ Builds = 1 /\ log[1].ev = "build_cache" /\ log[2].ev = "get_method"
             /\ RegistryComplete)

\* three lookups of operations and a lookup of a type by name were served by
\* the one build
C11_Witness ==
    /\ pc = "build" /\ Builds = 1
    /\ CountOf("get_method") = 3
    /\ \E j \in 1..Len(log) : log[j].ev = "lift" /\ log[j].name = "indicator"

\* is_prime_divisors was called for the root, the last step of the build
IsPrimeDivisorsCalled ==
    /\ pc \in {"returned", "raised"} /\ Len(log) > 0
    /\ Last(log) = Event("call", "Indicator.is_prime_divisors", 1)
    /\ HasKey(RootArgs.items, "a")

\* the index_letter the call was given: the argument, or the default 'i'
GivenIndexLetter ==
    IF HasKey(RootArgs.items, "index_letter") THEN Get(RootArgs.items, "index_letter")
    ELSE StrV(<<"i">>)

\* the text is exactly one lowercase character
OneLowercase(text) == Len(text) = 1 /\ text[1] \in LowerLetters

\* C12: is_prime_divisors raises the validation error, and returns no formula,
\* whenever index_letter is a text that is not exactly one lowercase
\* character (empty, longer, uppercase, a digit or a symbol), and raises
\* nothing and returns its formula when it is exactly one lowercase character
C12_IndexLetterValidated ==
    (IsPrimeDivisorsCalled /\ GivenIndexLetter.py = "str")
    => IF OneLowercase(GivenIndexLetter.s)
       THEN /\ pc = "returned" /\ exc = NoExc
            /\ retval.py = "Indicator"
            /\ \E p \in 1..Len(retval.expression) : retval.expression[p] = "\\prod"
       ELSE /\ pc = "raised"
            /\ exc = ValidationError("index_letter")
            /\ retval = NoneV

\* the one uppercase character I was refused
C12_Witness ==
    /\ IsPrimeDivisorsCalled /\ GivenIndexLetter = StrV(<<"I">>)
    /\ pc = "raised" /\ exc.msg = "Invalid index letter"


(***************************************************************************)
(* The value a formula text denotes.  The program only writes formulas; to *)
(* say what a formula evaluates to, the texts are read as mathematics with *)
(* the usual precedence: juxtaposition is a product and binds tighter than *)
(* + and -, a postfix ! or ^ binds tighter than juxtaposition.             *)
(*                                                                         *)
(* Numbers are exact.  A natural number is a sequence of digits in base    *)
(* Base, least significant first and without leading zeros, so that (a-1)! *)
(* is exact for every a the properties speak of.                           *)
(***************************************************************************)
Base == 1000

RECURSIVE BigOfNat(_)
BigOfNat(n) == IF n = 0 THEN <<>> ELSE <<n % Base>> \o BigOfNat(n \div Base)

RECURSIVE BigTrim(_)
BigTrim(a) ==
    IF Len(a) > 0 /\ a[Len(a)] = 0 THEN BigTrim(SubSeq(a, 1, Len(a) - 1)) ELSE a

BigDigit(a, i) == IF i <= Len(a) THEN a[i] ELSE 0

RECURSIVE BigAddFrom(_, _, _, _)
BigAddFrom(a, b, i, carry) ==
    IF i > Len(a) /\ i > Len(b)
    THEN (IF carry = 0 THEN <<>> ELSE <<carry>>)
    ELSE LET s == BigDigit(a, i) + BigDigit(b, i) + carry
         IN  <<s % Base>> \o BigAddFrom(a, b, i + 1, s \div Base)
BigAdd(a, b) == BigAddFrom(a, b, 1, 0)

\* -1, 0 or 1 as a < b, a = b or a > b, comparing from digit i down
RECURSIVE BigCmpFrom(_, _, _)
BigCmpFrom(a, b, i) ==
    IF i = 0 THEN 0
    ELSE IF a[i] < b[i] THEN -1
    ELSE IF a[i] > b[i] THEN 1
    ELSE BigCmpFrom(a, b, i - 1)
BigCmp(a, b) ==
    IF Len(a) < Len(b) THEN -1
    ELSE IF Len(a) > Len(b) THEN 1
    ELSE BigCmpFrom(a, b, Len(a))

\* a - b for a >= b
RECURSIVE BigSubFrom(_, _, _, _)
BigSubFrom(a, b, i, borrow) ==
    IF i > Len(a) THEN <<>>
    ELSE LET s == a[i] - BigDigit(b, i) - borrow
         IN  IF s < 0 THEN <<s + Base>> \o BigSubFrom(a, b, i + 1, 1)
             ELSE <<s>> \o BigSubFrom(a, b, i + 1, 0)
BigSub(a, b) == BigTrim(BigSubFrom(a, b, 1, 0))

\* a * m for 0 <= m < Base * Base
RECURSIVE BigMulSmallFrom(_, _, _, _)
BigMulSmallFrom(a, m, i, carry) ==
    IF i > Len(a) THEN (IF carry = 0 THEN <<>> ELSE <<carry>>)
    ELSE LET s == a[i] * m + carry
         IN  <<s % Base>> \o BigMulSmallFrom(a, m, i + 1, s \div Base)
BigMulSmall(a, m) == BigTrim(BigMulSmallFrom(a, m, 1, 0))

RECURSIVE BigMulFrom(_, _, _)
BigMulFrom(a, b, j) ==
    IF j > Len(b) THEN <<>>
    ELSE BigAdd(BigMulSmall(a, b[j]), BigTrim(<<0>> \o BigMulFrom(a, b, j + 1)))
BigMul(a, b) == BigMulFrom(a, b, 1)

\* a mod m for 0 < m < Base * Base, from digit i down
RECURSIVE BigModFrom(_, _, _, _)
BigModFrom(a, m, i, rem) ==
    IF i = 0 THEN rem ELSE BigModFrom(a, m, i - 1, (rem * Base + a[i]) % m)
BigMod(a, m) == BigModFrom(a, m, Len(a), 0)

\* a div m for 0 < m < Base * Base
RECURSIVE BigDivFrom(_, _, _, _)
BigDivFrom(a, m, i, rem) ==
    IF i = 0 THEN <<>>
    ELSE LET cur == rem * Base + a[i]
         IN  Append(BigDivFrom(a, m, i - 1, cur % m), cur \div m)
BigDiv(a, m) == BigTrim(BigDivFrom(a, m, Len(a), 0))

\* a natural number below Base as an integer; larger ones are not small
BigIsSmall(a) == Len(a) <= 1
BigToNat(a) == IF Len(a) = 0 THEN 0 ELSE a[1]

RECURSIVE Gcd(_, _)
Gcd(x, y) == IF y = 0 THEN x ELSE Gcd(y, x % y)


(***************************************************************************)
(* A rational is neg, num, den: (-1)^neg * num / den in lowest terms, with *)
(* 0 < den < Base.                                                         *)
(***************************************************************************)
Rat(neg, num, den) == [neg |-> neg /\ num # <<>>, num |-> num, den |-> den]
RatZero == Rat(FALSE, <<>>, 1)
RatOfInt(n) == IF n < 0 THEN Rat(TRUE, BigOfNat(0 - n), 1) ELSE Rat(FALSE, BigOfNat(n), 1)

\* num / den brought to lowest terms; not ok when den cannot be carried
Lowest(neg, num, den) ==
    LET g == Gcd(den, BigMod(num, den))
    IN  [ok |-> den \div g < Base, q |-> Rat(neg, BigDiv(num, g), den \div g)]

RatNeg(x) == Rat(~x.neg, x.num, x.den)

\* the sum of the signed numerators m and n over den
SignedSum(mneg, m, nneg, n, den) ==
    IF mneg = nneg THEN Lowest(mneg, BigAdd(m, n), den)
    ELSE IF BigCmp(m, n) >= 0 THEN Lowest(mneg, BigSub(m, n), den)
    ELSE Lowest(nneg, BigSub(n, m), den)

RatAdd(x, y) ==
    SignedSum(x.neg, BigMulSmall(x.num, y.den), y.neg, BigMulSmall(y.num, x.den),
              x.den * y.den)

RatMul(x, y) == Lowest(x.neg # y.neg, BigMul(x.num, y.num), x.den * y.den)

\* 1 / x, for x whose numerator can be carried as a denominator
RatInv(x) ==
    IF x.num = <<>> \/ ~BigIsSmall(x.num) THEN [ok |-> FALSE, q |-> RatZero]
    ELSE [ok |-> TRUE, q |-> Rat(x.neg, BigOfNat(x.den), BigToNat(x.num))]

RatDiv(x, y) ==
    LET inv == RatInv(y)
    IN  IF inv.ok THEN RatMul(x, inv.q) ELSE inv

RatIsInt(x) == x.den = 1
\* an integer of small magnitude, as an integer
RatIsSmallInt(x) == x.den = 1 /\ BigIsSmall(x.num)
RatToInt(x) == IF x.neg THEN 0 - BigToNat(x.num) ELSE BigToNat(x.num)

\* the largest integer <= x
RatFloor(x) ==
    LET q == BigDiv(x.num, x.den)
    IN  IF x.neg /\ BigMod(x.num, x.den) # 0 THEN Rat(TRUE, BigAdd(q, <<1>>), 1)
        ELSE Rat(x.neg, q, 1)
RatCeil(x) == RatNeg(RatFloor(RatNeg(x)))

\* -1, 0 or 1 as x < y, x = y or x > y
RatCmp(x, y) ==
    LET d == RatAdd(x, RatNeg(y)).q
    IN  IF d.num = <<>> THEN 0 ELSE IF d.neg THEN -1 ELSE 1

(***************************************************************************)
(* A value is a number r + p * pi for rationals r and p, or one of the     *)
(* forms the formulas take a floor or a ceiling of:                        *)
(*     cos      cos(r + p pi)              cos2      cos(r + p pi)^2       *)
(*     arctan2  r * arctan(x)^2            pi2       r * pi^2              *)
(*     arctan2pi2  r * arctan(x)^2 / pi^2  root      the k-th root of r    *)
(* where of x only z is kept, whether x = 0.  Everything else is undefined:*)
(* a text that is no formula, a division by zero, a free variable, a       *)
(* number this arithmetic does not carry.                                  *)
(***************************************************************************)
Value(kind, r, p, k, z) == [def |-> TRUE, kind |-> kind, r |-> r, p |-> p, k |-> k, z |-> z]
Undef == [def |-> FALSE, kind |-> "", r |-> RatZero, p |-> RatZero, k |-> 0, z |-> FALSE]
Val(r, p) == Value("num", r, p, 0, FALSE)
Num(n) == Val(RatOfInt(n), RatZero)
Pi == Val(RatZero, RatOfInt(1))

IsNumber(v) == v.def /\ v.kind = "num"
IsRational(v) == IsNumber(v) /\ v.p = RatZero
IsSmallInt(v) == IsRational(v) /\ RatIsSmallInt(v.r)

\* the value of the results r and p of rational arithmetic
ValOf(r, p) == IF r.ok /\ p.ok THEN Val(r.q, p.q) ELSE Undef
\* the form kind with the coefficient c
FormOf(kind, c, z) == IF c.ok THEN Value(kind, c.q, RatZero, 0, z) ELSE Undef

VNeg(a) == IF IsNumber(a) THEN Val(RatNeg(a.r), RatNeg(a.p)) ELSE Undef

VAdd(a, b) ==
    IF IsNumber(a) /\ IsNumber(b) THEN ValOf(RatAdd(a.r, b.r), RatAdd(a.p, b.p)) ELSE Undef

VMul(a, b) ==
    CASE IsRational(a) /\ IsNumber(b) -> ValOf(RatMul(a.r, b.r), RatMul(a.r, b.p))
      [] IsNumber(a) /\ ~IsRational(a) /\ IsRational(b) ->
            ValOf(RatMul(a.r, b.r), RatMul(a.p, b.r))
      [] /\ IsNumber(a) /\ IsNumber(b)
         /\ a.r = RatZero /\ b.r = RatZero
         /\ a.p # RatZero /\ b.p # RatZero -> FormOf("pi2", RatMul(a.p, b.p), FALSE)
      [] IsRational(a) /\ b.def /\ b.kind = "arctan2" ->
            FormOf("arctan2", RatMul(a.r, b.r), b.z)
      [] a.def /\ a.kind = "arctan2" /\ IsRational(b) ->
            FormOf("arctan2", RatMul(a.r, b.r), a.z)
      [] OTHER -> Undef

VDiv(a, b) ==
    CASE IsNumber(a) /\ IsRational(b) -> ValOf(RatDiv(a.r, b.r), RatDiv(a.p, b.r))
      [] a.def /\ a.kind = "arctan2" /\ IsRational(b) ->
            FormOf("arctan2", RatDiv(a.r, b.r), a.z)
      [] a.def /\ a.kind = "arctan2" /\ b.def /\ b.kind = "pi2" ->
            FormOf("arctan2pi2", RatDiv(a.r, b.r), a.z)
      [] OTHER -> Undef

\* a ^ n by halves, n >= 0
RECURSIVE VPowNat(_, _)
VPowNat(a, n) ==
    IF n = 0 THEN Num(1)
    ELSE IF n = 1 THEN a
    ELSE VMul(VPowNat(a, n \div 2), VPowNat(a, n - n \div 2))

MaxExponent == 64
VPow(a, e) ==
    IF ~(a.def /\ IsSmallInt(e)) THEN Undef
    ELSE LET n == RatToInt(e.r)
         IN  IF a.kind = "cos" THEN (IF n = 2 THEN [a EXCEPT !.kind = "cos2"] ELSE Undef)
             ELSE IF n > MaxExponent \/ n < 0 - MaxExponent THEN Undef
             ELSE IF n >= 0 THEN VPowNat(a, n)
             ELSE VDiv(Num(1), VPowNat(a, 0 - n))

\* the product of the integers lo..hi, by halves
RECURSIVE BigProduct(_, _)
BigProduct(lo, hi) ==
    IF lo > hi THEN <<1>>
    ELSE IF lo = hi THEN BigOfNat(lo)
    ELSE BigMul(BigProduct(lo, (lo + hi) \div 2), BigProduct((lo + hi) \div 2 + 1, hi))

\* n! for a natural number n
MaxFactorial == 64
VFactorial(a) ==
    IF IsSmallInt(a) /\ ~a.r.neg /\ RatToInt(a.r) <= MaxFactorial
    THEN Val(Rat(FALSE, BigProduct(1, RatToInt(a.r)), 1), RatZero)
    ELSE Undef

\* the k-th root of a rational a >= 0, k >= 1
VRoot(k, a) ==
    IF IsSmallInt(k) /\ RatToInt(k.r) >= 1 /\ RatToInt(k.r) <= MaxExponent
       /\ IsRational(a) /\ ~a.r.neg
    THEN Value("root", a.r, RatZero, RatToInt(k.r), FALSE)
    ELSE Undef

\* the square root: the rational r >= 0 with r * r = a when there is one
IsSquare(n) == \E r \in 0..Base : r * r = n
NatRoot(n) == CHOOSE r \in 0..Base : r * r = n
VSqrt(a) ==
    IF ~(IsRational(a) /\ ~a.r.neg) THEN Undef
    ELSE LET n == BigDigit(a.r.num, 1) + Base * BigDigit(a.r.num, 2)
         IN  IF Len(a.r.num) <= 2 /\ IsSquare(n) /\ IsSquare(a.r.den)
             THEN Val(Rat(FALSE, BigOfNat(NatRoot(n)), NatRoot(a.r.den)), RatZero)
             ELSE VRoot(Num(2), a)

VCos(a) == IF IsNumber(a) THEN [a EXCEPT !.kind = "cos"] ELSE Undef

VArctanSquared(a) ==
    IF IsNumber(a) THEN Value("arctan2", RatOfInt(1), RatZero, 0, a.r = RatZero /\ a.p = RatZero)
    ELSE Undef

\* the largest m with m^k <= x, for 0 <= x < MaxRoot
MaxRoot == 64
RootFloor(x, k) ==
    CHOOSE m \in 0..MaxRoot :
        /\ RatCmp(VPowNat(Num(m), k).r, x) <= 0
        /\ RatCmp(VPowNat(Num(m + 1), k).r, x) > 0

VFloor(a) ==
    CASE IsRational(a) -> Val(RatFloor(a.r), RatZero)
      \* cos(x)^2 is 1 when x is an integer multiple of pi, and below 1 otherwise
      [] a.def /\ a.kind = "cos2" ->
            IF a.r = RatZero /\ RatIsInt(a.p) THEN Num(1) ELSE Num(0)
      [] a.def /\ a.kind = "root" /\ RatCmp(a.r, RatOfInt(MaxRoot)) < 0 ->
            Num(RootFloor(a.r, a.k))
      [] OTHER -> Undef

VCeil(a) ==
    CASE IsRational(a) -> Val(RatCeil(a.r), RatZero)
      \* arctan(x)^2 / pi^2 is 0 when x = 0, and in (0, 1/4) otherwise
      [] a.def /\ a.kind = "arctan2pi2" /\ a.z -> Num(0)
      [] /\ a.def /\ a.kind = "arctan2pi2" /\ ~a.z
         /\ ~a.r.neg /\ a.r # RatZero
         /\ RatCmp(a.r, RatOfInt(4)) <= 0 -> Num(1)
      [] OTHER -> Undef

(***************************************************************************)
(* Reading a formula.  A text is read as a sequence of tokens: a token is  *)
(* a piece of the text, or stands for a part of the text that was read     *)
(* already: "<value>" for a part whose value is val, "<from>" for the      *)
(* lower bound {name = val} of a sum or product, "<index>" for the index   *)
(* [val] of a root.  lvl is the number of brackets open around the token;  *)
(* a bracket has the lvl of what is around it.                             *)
(***************************************************************************)
Token(tok, val, lvl, name) == [tok |-> tok, val |-> val, lvl |-> lvl, name |-> name]
Piece(c, lvl) == Token(c, Undef, lvl, "")
ValueToken(v, lvl) == Token("<value>", v, lvl, "")
FromToken(name, v, lvl) == Token("<from>", v, lvl, name)
IndexToken(v, lvl) == Token("<index>", v, lvl, "")

Openers == {LP, LFLOOR, LCEIL, "{", "["}
Closers == {RP, RFLOOR, RCEIL, "}", "]"}
Digits == {Digit(d) : d \in 0..9}

\* the positions 1..n in order
Positions(n) == [i \in 1..n |-> i]
\* the first element of seq that passes, or none when there is none
First(seq, none) == IF seq = <<>> THEN none ELSE seq[1]

\* the brackets opened less the brackets closed in text[lo..hi]
Rise(text, lo, hi) ==
    Len(SelectSeq(SubSeq(text, lo, hi), LAMBDA c : c \in Openers))
    - Len(SelectSeq(SubSeq(text, lo, hi), LAMBDA c : c \in Closers))

\* the lvl of each of text[lo..hi] when base brackets are open before lo
RECURSIVE Levels(_, _, _, _)
Levels(text, lo, hi, base) ==
    IF lo > hi THEN <<>>
    ELSE IF lo = hi THEN <<IF text[lo] \in Closers THEN base - 1 ELSE base>>
    ELSE Levels(text, lo, (lo + hi) \div 2, base)
         \o Levels(text, (lo + hi) \div 2 + 1, hi, base + Rise(text, lo, (lo + hi) \div 2))

\* a number starts at i: a digit that does not go on a number.  The digit
\* after ^ is a number by itself, as LaTeX raises one token only.
StartsNumber(text, i) ==
    /\ text[i] \in Digits
    /\ \/ i = 1
       \/ text[i - 1] \notin Digits
       \/ i >= 3 /\ text[i - 2] = "^"

\* the number whose digits so far make acc and whose next digit would be at i
MaxDigits == 4
RECURSIVE NumberFrom(_, _, _, _)
NumberFrom(text, i, acc, digits) ==
    IF i > Len(text) \/ text[i] \notin Digits \/ StartsNumber(text, i) THEN Num(acc)
    ELSE IF digits >= MaxDigits THEN Undef
    ELSE NumberFrom(text, i + 1, 10 * acc + DigitValue(text[i]), digits + 1)

\* the token text[i] makes, a piece "" when it makes none; env gives the
\* values of variables, a list of items letter: integer
LexAt(text, env, i, lvl) ==
    LET c == text[i]
    IN  CASE c = " " -> Piece("", lvl)
          [] c \in Digits ->
                IF StartsNumber(text, i)
                THEN ValueToken(NumberFrom(text, i + 1, DigitValue(c), 1), lvl)
                ELSE Piece("", lvl)
          [] c = "\\pi" -> ValueToken(Pi, lvl)
          [] HasKey(env, c) -> ValueToken(Num(Get(env, c)), lvl)
          [] OTHER -> Piece(c, lvl)

LexWith(text, env, levels) ==
    SelectSeq([i \in 1..Len(text) |-> LexAt(text, env, i, levels[i])],
              LAMBDA t : t.tok # "")

Lex(text, env) == LexWith(text, env, Levels(text, 1, Len(text), 0))

(***************************************************************************)
(* The value of a span of tokens without brackets.  What was in brackets   *)
(* has been read already, so every operand of \frac, \sqrt, \cos, \arctan  *)
(* and ^ is one "<value>" token.  The span is a sum of signed terms, a     *)
(* term is a product of units written side by side, and a unit is a value, *)
(* \frac v v, \sqrt v, \sqrt [v] v, \cos v or \arctan ^ 2 v, followed by   *)
(* any number of ! and ^ v.  Anything else has no value: a variable that   *)
(* is free, a sign without a term, an operator without its operands.       *)
(***************************************************************************)
IsValue(t) == t.tok = "<value>"
IsSign(t) == t.tok \in {"+", "-"}
Prefixes == {"\\frac", "\\sqrt", "\\cos", "\\arctan"}

\* the value token at p is the operand of what stands before it
IsOperand(span, p) ==
    \/ p >= 2 /\ span[p - 1].tok \in {"^", "\\cos", "\\sqrt", "<index>", "\\frac"}
    \/ p >= 3 /\ span[p - 2].tok = "\\frac"
    \/ p >= 4 /\ span[p - 3].tok = "\\arctan" /\ span[p - 2].tok = "^"

\* a unit starts at p
StartsUnit(span, p) ==
    \/ span[p].tok \in Prefixes
    \/ IsValue(span[p]) /\ ~IsOperand(span, p)

\* v after the postfix operators of unit from p on
RECURSIVE Postfix(_, _, _)
Postfix(v, unit, p) ==
    IF p > Len(unit) THEN v
    ELSE IF unit[p].tok = "!" THEN Postfix(VFactorial(v), unit, p + 1)
    ELSE IF unit[p].tok = "^" /\ p < Len(unit) /\ IsValue(unit[p + 1])
    THEN Postfix(VPow(v, unit[p + 1].val), unit, p + 2)
    ELSE Undef

\* unit[p] is there and is a value
ValueAt(unit, p) == p <= Len(unit) /\ IsValue(unit[p])

UnitValue(unit) ==
    CASE IsValue(unit[1]) -> Postfix(unit[1].val, unit, 2)
      [] unit[1].tok = "\\frac" /\ ValueAt(unit, 2) /\ ValueAt(unit, 3) ->
            Postfix(VDiv(unit[2].val, unit[3].val), unit, 4)
      [] unit[1].tok = "\\sqrt" /\ ValueAt(unit, 2) ->
            Postfix(VSqrt(unit[2].val), unit, 3)
      [] /\ unit[1].tok = "\\sqrt" /\ Len(unit) >= 3
         /\ unit[2].tok = "<index>" /\ IsValue(unit[3]) ->
            Postfix(VRoot(unit[2].val, unit[3].val), unit, 4)
      [] unit[1].tok = "\\cos" /\ ValueAt(unit, 2) -> Postfix(VCos(unit[2].val), unit, 3)
      [] /\ unit[1].tok = "\\arctan" /\ Len(unit) >= 4
         /\ unit[2].tok = "^" /\ IsValue(unit[3]) /\ unit[3].val = Num(2)
         /\ IsValue(unit[4]) ->
            Postfix(VArctanSquared(unit[4].val), unit, 5)
      [] OTHER -> Undef

\* the sum and the product of vals[lo..hi], by halves
RECURSIVE SumOf(_, _, _)
SumOf(vals, lo, hi) ==
    IF lo > hi THEN Num(0)
    ELSE IF lo = hi THEN vals[lo]
    ELSE VAdd(SumOf(vals, lo, (lo + hi) \div 2), SumOf(vals, (lo + hi) \div 2 + 1, hi))

RECURSIVE ProductOf(_, _, _)
ProductOf(vals, lo, hi) ==
    IF lo > hi THEN Num(1)
    ELSE IF lo = hi THEN vals[lo]
    ELSE VMul(ProductOf(vals, lo, (lo + hi) \div 2), ProductOf(vals, (lo + hi) \div 2 + 1, hi))

\* the units of term start at starts
TermOfUnits(term, starts) ==
    IF starts = <<>> \/ starts[1] # 1 THEN Undef
    ELSE ProductOf([i \in 1..Len(starts) |->
                       UnitValue(SubSeq(term, starts[i],
                                        IF i < Len(starts) THEN starts[i + 1] - 1
                                        ELSE Len(term)))],
                   1, Len(starts))

TermValue(term) ==
    TermOfUnits(term, SelectSeq(Positions(Len(term)), LAMBDA p : StartsUnit(term, p)))

\* the signs span[lo..hi] before a term make it negative
Negative(span, lo, hi) ==
    Len(SelectSeq(SubSeq(span, lo, hi), LAMBDA t : t.tok = "-")) % 2 = 1

\* the terms of span are span[starts[i]..ends[i]]
SumOfTerms(span, starts, ends) ==
    SumOf([i \in 1..Len(starts) |->
              IF Negative(span, IF i = 1 THEN 1 ELSE ends[i - 1] + 1, starts[i] - 1)
              THEN VNeg(TermValue(SubSeq(span, starts[i], ends[i])))
              ELSE TermValue(SubSeq(span, starts[i], ends[i]))],
          1, Len(starts))

FlatValue(span) ==
    IF span = <<>> \/ IsSign(span[Len(span)]) THEN Undef
    ELSE SumOfTerms(span,
                    SelectSeq(Positions(Len(span)),
                              LAMBDA p : ~IsSign(span[p]) /\ (p = 1 \/ IsSign(span[p - 1]))),
                    SelectSeq(Positions(Len(span)),
                              LAMBDA p : ~IsSign(span[p])
                                         /\ (p = Len(span) \/ IsSign(span[p + 1]))))

(***************************************************************************)
(* Reading by steps.  A step reads every innermost bracket pair that holds *)
(* no variable, all of them at once, and puts one token for each; when     *)
(* there is none it writes out the leftmost sum or product whose bounds    *)
(* have been read, a copy of the summand for each value of the index; when *)
(* no bracket is left it reads the whole.  The text has been read when it  *)
(* is one "<value>" token.                                                 *)
(***************************************************************************)
IsBracket(t) == t.tok \in Openers \cup Closers
IsVariable(t) == t.tok \in LowerLetters
HasVariable(span) == \E p \in 1..Len(span) : IsVariable(span[p])

HasBeenRead(text) == Len(text) = 1 /\ IsValue(text[1])

\* span is the inside of {name = ...}
IsFrom(opener, span) ==
    /\ opener.tok = "{" /\ Len(span) >= 3
    /\ IsVariable(span[1]) /\ span[2].tok = "="
    /\ ~HasVariable(SubSeq(span, 3, Len(span)))

\* the bracket pair opener, closer with span inside can be read
CanRead(opener, span) == ~HasVariable(span) \/ IsFrom(opener, span)

\* the token for the bracket pair opener, closer with span inside
ReadPair(opener, closer, span) ==
    CASE opener.tok = LP /\ closer.tok = RP -> ValueToken(FlatValue(span), opener.lvl)
      [] opener.tok = LFLOOR /\ closer.tok = RFLOOR ->
            ValueToken(VFloor(FlatValue(span)), opener.lvl)
      [] opener.tok = LCEIL /\ closer.tok = RCEIL ->
            ValueToken(VCeil(FlatValue(span)), opener.lvl)
      [] opener.tok = "{" /\ closer.tok = "}" /\ IsFrom(opener, span) ->
            FromToken(span[1].tok, FlatValue(SubSeq(span, 3, Len(span))), opener.lvl)
      [] opener.tok = "{" /\ closer.tok = "}" /\ ~IsFrom(opener, span) ->
            ValueToken(FlatValue(span), opener.lvl)
      [] opener.tok = "[" /\ closer.tok = "]" -> IndexToken(FlatValue(span), opener.lvl)
      [] OTHER -> ValueToken(Undef, opener.lvl)

\* the tokens for the pairs pairs[lo..hi], each with the text up to the next
\* pair; a pair is the position of its closer in brackets
RECURSIVE ReadPairs(_, _, _, _, _)
ReadPairs(text, brackets, pairs, lo, hi) ==
    IF lo = hi
    THEN LET o == brackets[pairs[lo] - 1]
             c == brackets[pairs[lo]]
         IN  <<ReadPair(text[o], text[c], SubSeq(text, o + 1, c - 1))>>
             \o SubSeq(text, c + 1,
                       IF lo < Len(pairs) THEN brackets[pairs[lo + 1] - 1] - 1 ELSE Len(text))
    ELSE ReadPairs(text, brackets, pairs, lo, (lo + hi) \div 2)
         \o ReadPairs(text, brackets, pairs, (lo + hi) \div 2 + 1, hi)

\* the pairs of text that can be read, text having its brackets at brackets
PairsToRead(text, brackets) ==
    SelectSeq(Positions(Len(brackets)),
              LAMBDA j : /\ j >= 2
                         /\ text[brackets[j]].tok \in Closers
                         /\ text[brackets[j - 1]].tok \in Openers
                         /\ CanRead(text[brackets[j - 1]],
                                    SubSeq(text, brackets[j - 1] + 1, brackets[j] - 1)))

\* the head of a sum or product whose bounds have been read is at h
IsHead(text, h) ==
    /\ text[h].tok \in {"\\sum", "\\prod"}
    /\ h + 4 <= Len(text)
    /\ text[h + 1].tok = "_" /\ text[h + 2].tok = "<from>"
    /\ text[h + 3].tok = "^" /\ IsValue(text[h + 4])

\* the summand of the head at h ends before the first sign around it, or
\* before the bracket that closes what is around it
AfterSummand(text, h) ==
    First(SelectSeq(Positions(Len(text)),
                    LAMBDA q : /\ q > h + 4
                               /\ \/ text[q].lvl < text[h].lvl
                                  \/ text[q].lvl = text[h].lvl /\ IsSign(text[q])),
          Len(text) + 1)

\* the summand with j for the index, in brackets, two brackets deeper
Copy(summand, name, j, lvl) ==
    <<Piece(LP, lvl + 1)>>
    \o [p \in 1..Len(summand) |->
           IF summand[p].tok = name THEN ValueToken(Num(j), summand[p].lvl + 2)
           ELSE [summand[p] EXCEPT !.lvl = @ + 2]]
    \o <<Piece(RP, lvl + 1)>>

\* the copies for lo..hi, by halves, with + between them for a sum
RECURSIVE Copies(_, _, _, _, _, _)
Copies(summand, name, lo, hi, lvl, between) ==
    IF lo = hi THEN Copy(summand, name, lo, lvl)
    ELSE Copies(summand, name, lo, (lo + hi) \div 2, lvl, between)
         \o between
         \o Copies(summand, name, (lo + hi) \div 2 + 1, hi, lvl, between)

\* what the sum or product with the head and the summand is written out as
MaxRange == 32
WrittenOut(head, from, upto, summand) ==
    IF ~(IsSmallInt(from.val) /\ IsSmallInt(upto.val)) \/ summand = <<>>
    THEN <<ValueToken(Undef, head.lvl)>>
    ELSE IF RatToInt(upto.val.r) < RatToInt(from.val.r)
    THEN <<ValueToken(IF head.tok = "\\sum" THEN Num(0) ELSE Num(1), head.lvl)>>
    ELSE IF RatToInt(upto.val.r) - RatToInt(from.val.r) >= MaxRange
    THEN <<ValueToken(Undef, head.lvl)>>
    ELSE <<Piece(LP, head.lvl)>>
         \o Copies(summand, from.name, RatToInt(from.val.r), RatToInt(upto.val.r), head.lvl,
                   IF head.tok = "\\sum" THEN <<Piece("+", head.lvl + 1)>> ELSE <<>>)
         \o <<Piece(RP, head.lvl)>>

\* text with the sum or product at h, whose summand ends before q, written out
WriteOut(text, h, q) ==
    SubSeq(text, 1, h - 1)
    \o WrittenOut(text[h], text[h + 2], text[h + 4], SubSeq(text, h + 5, q - 1))
    \o SubSeq(text, q, Len(text))

\* one step, for the brackets, the pairs to read and the first head of text
StepWith(text, brackets, pairs, h) ==
    IF pairs # <<>>
    THEN SubSeq(text, 1, brackets[pairs[1] - 1] - 1)
         \o ReadPairs(text, brackets, pairs, 1, Len(pairs))
    ELSE IF h > 0 THEN WriteOut(text, h, AfterSummand(text, h))
    ELSE IF brackets = <<>> /\ ~HasVariable(text) THEN <<ValueToken(FlatValue(text), 0)>>
    ELSE <<ValueToken(Undef, 0)>>

StepAt(text, brackets) ==
    StepWith(text, brackets, PairsToRead(text, brackets),
             First(SelectSeq(Positions(Len(text)), LAMBDA h : IsHead(text, h)), 0))

Step(text) ==
    StepAt(text, SelectSeq(Positions(Len(text)), LAMBDA p : IsBracket(text[p])))

(***************************************************************************)
(* The operations of Indicator called directly, as Python code calls them, *)
(* and the formula they return read to its value.  A call is the method,   *)
(* its operands and the values of the variables its operands name.         *)
(***************************************************************************)
Calling(method, operands, env) == [method |-> method, operands |-> operands, env |-> env]

\* what method returns for the operands, given in the order it declares them
Apply(method, operands) ==
    CASE method = "logical_and" -> logical_and(operands)
      [] method = "logical_or" -> logical_or(operands)
      [] method = "logical_not" -> logical_not(operands[1])
      [] method = "is_non_negative" -> is_non_negative(operands[1])
      [] method = "less_than_or_equal" -> less_than_or_equal(operands[1], operands[2])
      [] method = "less_than" -> less_than(operands[1], operands[2])
      [] method = "bigger_than_or_equal" -> bigger_than_or_equal(operands[1], operands[2])
      [] method = "bigger_than" -> bigger_than(operands[1], operands[2])
      [] method = "is_prime_divisors" -> is_prime_divisors(operands[1], StrV(<<"i">>))
      [] method = "is_prime_wilson" -> is_prime_wilson(operands[1])
      [] method = "all_in_range" ->
            all_in_range(operands[1], operands[2], operands[3], StrV(<<"k">>))
      [] method = "count_in_range" ->
            count_in_range(operands[1], operands[2], operands[3], StrV(<<"k">>))
      [] method = "is_range_at_least_exp" ->
            is_range_at_least_exp(operands[1], operands[2], operands[3], operands[4],
                                  StrV(<<"k">>))
      [] OTHER -> NoneV

\* the tuples of 1..MaxOperands indicators 0 and 1
MaxOperands == 3
Bits == {Indicator(IntV(0)), Indicator(IntV(1))}
BitTuples == UNION {[1..n -> Bits] : n \in 1..MaxOperands}

LogicalCalls ==
    {Calling(method, operands, <<>>) : method \in {"logical_and", "logical_or"},
                                       operands \in BitTuples}
    \cup {Calling("logical_not", <<bit>>, <<>>) : bit \in Bits}

\* the numbers the primality formulas are built for
MaxPrime == 30
PrimeCalls ==
    {Calling(method, <<LatexExpr(IntV(n))>>, <<>>) :
        method \in {"is_prime_divisors", "is_prime_wilson"}, n \in 2..MaxPrime}

\* the indicators over the index k: d divides k, for d of 1..MaxDivisor
MaxDivisor == 3
IndexK == LatexExpr(StrV(<<"k">>))
RangeIndicators == {divides(LatexExpr(IntV(d)), IndexK) : d \in 1..MaxDivisor}

\* the ranges lo..hi within 1..MaxBound
MaxBound == 4
RangeCalls ==
    {Calling(method, <<LatexExpr(IntV(lo)), LatexExpr(IntV(hi)), indicator>>, <<>>) :
        method \in {"all_in_range", "count_in_range"},
        lo \in 1..2, hi \in 1..MaxBound, indicator \in RangeIndicators}

\* at least n of lo..hi, with the variable n of the formula worth the operand n
AtLeastCalls ==
    {Calling("is_range_at_least_exp",
             <<LatexExpr(IntV(1)), LatexExpr(IntV(hi)), LatexExpr(IntV(n)), indicator>>,
             <<Item("n", n)>>) :
        hi \in 1..MaxBound, n \in 1..MaxBound, indicator \in RangeIndicators}

\* the operands of the comparisons: a variable, a literal, a negative
\* literal, a difference and a sum
ComparisonOperands ==
    {<<"x">>, <<"y">>, <<"0">>, <<"2">>, <<"-", "1">>, <<"x", "-", "1">>, <<"x", "+", "y">>}
MaxValue == 2
Comparisons == {"less_than_or_equal", "less_than", "bigger_than_or_equal", "bigger_than"}
ComparisonCalls ==
    {Calling(method, <<LatexExpr(StrV(a)), LatexExpr(StrV(b))>>,
             <<Item("x", x), Item("y", y)>>) :
        method \in Comparisons \cup {"is_non_negative"},
        a \in ComparisonOperands, b \in ComparisonOperands,
        x \in (0 - MaxValue)..MaxValue, y \in {0, 1}}

AlgebraInputs == LogicalCalls \cup PrimeCalls \cup RangeCalls \cup AtLeastCalls \cup ComparisonCalls

\* before the call: nothing of main runs
InitAlgebra ==
    /\ args \in {c \in CommandLines : c.variant = "prog2math" /\ c.quiet}
    /\ input \in AlgebraInputs
    /\ pc = "operate"
    /\ stack = <<>>
    /\ retval = NoneV
    /\ exc = NoExc
    /\ stdout = <<>>
    /\ stderr = <<>>
    /\ out_file = NoneV
    /\ exit_status = NoneV
    /\ METHOD_NAMES_MAPPING = NoneV
    /\ CLASS_NAMES_MAPPING = NoneV
    /\ log = <<>>
    /\ reading = <<>>

\* the call of the operation
Operate ==
    /\ pc = "operate"
    /\ retval' = Apply(input.method, input.operands)
    /\ pc' = "returned"
    /\ UNCHANGED <<args, input, stack, exc, stdout, stderr, out_file, exit_status,
                   METHOD_NAMES_MAPPING, CLASS_NAMES_MAPPING, log, reading>>

\* the formula returned is taken up for reading
TakeUp ==
    /\ pc = "returned" /\ input \in AlgebraInputs
    /\ reading' = Lex(Str(retval), input.env)
    /\ pc' = "reading"
    /\ UNCHANGED <<args, input, stack, retval, exc, stdout, stderr, out_file, exit_status,
                   METHOD_NAMES_MAPPING, CLASS_NAMES_MAPPING, log>>

\* one step of reading
ReadOn ==
    /\ pc = "reading" /\ ~HasBeenRead(reading)
    /\ reading' = Step(reading)
    /\ UNCHANGED <<args, input, pc, stack, retval, exc, stdout, stderr, out_file, exit_status,
                   METHOD_NAMES_MAPPING, CLASS_NAMES_MAPPING, log>>

NextAlgebra ==
    \/ Operate
    \/ TakeUp
    \/ ReadOn

SpecAlgebra == InitAlgebra /\ [][NextAlgebra]_vars

\* the formula has been read to the integer n
ReadAs(n) == pc = "reading" /\ HasBeenRead(reading) /\ reading[1].val = Num(n)
\* the formula has been read
Read == pc = "reading" /\ HasBeenRead(reading)
\* the value of the text of an operand, for the variables of the call
OperandValue(operand) == FlatValue(Lex(Str(operand), input.env))

(***************************************************************************)
(* What the formulas evaluate to                                           *)
(***************************************************************************)
\* the operand is the indicator 1
IsOne(operand) == OperandValue(operand) = Num(1)

\* C13: for every tuple of one or more inputs 0 and 1, the formula of
\* logical_and evaluates to 1 when all inputs are 1 and to 0 otherwise, the
\* formula of logical_or to 1 when some input is 1 and to 0 otherwise, and the
\* formula of logical_not to 1 for 0 and to 0 for 1: the boolean AND, OR and
\* NOT, and so again 0 or 1
C13_TruthTables ==
    (Read /\ input \in LogicalCalls) =>
        /\ reading[1].val \in {Num(0), Num(1)}
        /\ CASE input.method = "logical_and" ->
                   ReadAs(1) <=> \A i \in 1..Len(input.operands) : IsOne(input.operands[i])
             [] input.method = "logical_or" ->
                   ReadAs(1) <=> \E i \in 1..Len(input.operands) : IsOne(input.operands[i])
             [] OTHER -> ReadAs(1) <=> ~IsOne(input.operands[1])

\* the formula of logical_or for 0, 1, 0 was read as 1
C13_Witness ==
    /\ ReadAs(1)
    /\ input.method = "logical_or"
    /\ input.operands = <<Indicator(IntV(0)), Indicator(IntV(1)), Indicator(IntV(0))>>

\* n is a prime number
IsPrime(n) == n >= 2 /\ \A d \in 2..(n - 1) : n % d # 0

\* the integer the text of the operand is the literal of
LiteralOf(operand) == RatToInt(OperandValue(operand).r)

\* C14: for every integer n of 2..30 the formula of is_prime_divisors(n) and
\* the formula of is_prime_wilson(n) evaluate to the same value, which is 1
\* when n is prime and 0 when it is not
C14_PrimalityFormulas ==
    (Read /\ input \in PrimeCalls) =>
        ReadAs(IF IsPrime(LiteralOf(input.operands[1])) THEN 1 ELSE 0)

\* the divisor d of the indicator d divides k
DivisorOf(indicator) ==
    CHOOSE d \in 1..MaxDivisor : indicator = divides(LatexExpr(IntV(d)), IndexK)

\* the integers of lo..hi that satisfy the indicator
Satisfying(lo, hi, indicator) ==
    {k \in LiteralOf(lo)..LiteralOf(hi) : k % DivisorOf(indicator) = 0}

\* the formula of count_in_range evaluates to the number of integers of
\* lo..hi that satisfy the indicator
CountIsRight ==
    (Read /\ input.method = "count_in_range") =>
        ReadAs(Cardinality(Satisfying(input.operands[1], input.operands[2],
                                      input.operands[3])))

\* C15: the formula of all_in_range(lo, hi, indicator) evaluates to 1 when
\* every integer of lo..hi satisfies the indicator and to 0 otherwise, so
\* that its value is always 0 or 1
C15_AllInRange ==
    (Read /\ input.method = "all_in_range") =>
        ReadAs(IF Satisfying(input.operands[1], input.operands[2], input.operands[3])
                  = LiteralOf(input.operands[1])..LiteralOf(input.operands[2])
               THEN 1 ELSE 0)

\* \left\lfloor \sqrt[index]{\frac{numerator}{denominator}} \right\rfloor
FloorOfRoot(index, numerator, denominator) ==
    <<LFLOOR, "\\sqrt", "[">> \o index \o <<"]", "{", "\\frac", "{">> \o numerator
    \o <<"}", "{">> \o denominator \o <<"}", "}", RFLOOR>>

\* C16: is_range_at_least_exp(lo, hi, n, indicator) builds the formula
\* floor((n / count_in_range(lo, hi, indicator))^(1/n)), in which the numerator
\* and the root index are both the text of the operand n, and the formula
\* evaluates to 1 exactly when at least n integers of lo..hi satisfy the
\* indicator, and to 0 when fewer do
C16_AtLeastFormula ==
    (pc \in {"returned", "reading"} /\ input.method = "is_range_at_least_exp") =>
        LET lo == input.operands[1]
            hi == input.operands[2]
            n == input.operands[3]
            indicator == input.operands[4]
            count == Str(count_in_range(lo, hi, indicator, StrV(<<"k">>)))
        IN  /\ Str(retval) \in {FloorOfRoot(Str(n), Str(n), count),
                                FloorOfRoot(<<"{">> \o Str(n) \o <<"}">>, Str(n), count)}
            /\ Read => ReadAs(IF Cardinality(Satisfying(lo, hi, indicator)) >= LiteralOf(n)
                              THEN 1 ELSE 0)

\* the formula is read as floor((n / count)^(1/n)) when the variable n in its
\* root index is worth the operand n: what it evaluates to is 1 exactly when
\* at most n integers, and at least one, satisfy the indicator
AtLeastReadsAsAtMost ==
    (Read /\ input.method = "is_range_at_least_exp") =>
        LET count == Cardinality(Satisfying(input.operands[1], input.operands[2],
                                            input.operands[4]))
        IN  IF count = 0 THEN ~reading[1].val.def
            ELSE ReadAs(IF count <= LiteralOf(input.operands[3]) THEN 1 ELSE 0)

\* -1, 0 or 1 as the value of the operand a is below, equal to or above that of b
Compared(a, b) == RatCmp(OperandValue(a).r, OperandValue(b).r)

\* C17: for all operands a and b, also those whose text is a sum, a
\* difference or a negative literal such as x-1, the formulas of
\* less_than_or_equal(a, b), less_than(a, b), bigger_than_or_equal(a, b) and
\* bigger_than(a, b) evaluate to 1 exactly when a <= b, a < b, a >= b and
\* a > b for the values the operands have, and to 0 otherwise
C17_Comparisons ==
    (Read /\ input.method \in Comparisons) =>
        LET c == Compared(input.operands[1], input.operands[2])
        IN  ReadAs(IF CASE input.method = "less_than_or_equal" -> c <= 0
                        [] input.method = "less_than" -> c < 0
                        [] input.method = "bigger_than_or_equal" -> c >= 0
                        [] OTHER -> c > 0
                   THEN 1 ELSE 0)

\* the formula of is_non_negative(a) evaluates to 1 exactly when a >= 0, for
\* an operand a that is a variable or a literal without a sign
NonNegativeOfAtom ==
    (Read /\ input.method = "is_non_negative" /\ Len(Str(input.operands[1])) = 1) =>
        ReadAs(IF Compared(input.operands[1], LatexExpr(IntV(0))) >= 0 THEN 1 ELSE 0)

(***************************************************************************)
(* The two variants side by side                                           *)
(***************************************************************************)
\* the builder is about to call the operation of the top activation
AtCall ==
    /\ pc = "build" /\ Len(stack) > 0 /\ Top.at = "args"
    /\ Top.i = Len(Top.expr_method_args.items)

\* both calls fail, or both return and the texts are the same
SameOutcome(one, other) ==
    /\ (one.raised = NoExc) <=> (other.raised = NoExc)
    /\ (one.raised = NoExc /\ other.raised = NoExc) => Str(one.val) = Str(other.val)

\* C18: math_prog.py and prog2math.py are equivalent as builders: an operation
\* registered in one is registered in the other, and for the same arguments
\* its call fails in one exactly when it fails in the other and otherwise
\* returns the same formula text, so that the build of a node fails or
\* succeeds alike in both
C18_VariantsEquivalent ==
    AtCall => SameOutcome(Call("prog2math", Top.method, Top.kwds),
                          Call("math_prog", Top.method, Top.kwds))

(***************************************************************************)
(* The end of a run of prog2math.py                                        *)
(***************************************************************************)
\* the run of prog2math.py has ended
Prog2mathEnded == args.variant = "prog2math" /\ pc = "exit"

\* the lines printed after the logo
PrintedLines == SelectSeq(stdout, LAMBDA line : line.what # "logo")

\* C19: in main of prog2math.py every error raised while loading or building
\* is caught and ends the run with exit status -1, after an 'Error: ...' line
\* when not in quiet mode and with nothing printed in quiet mode; a build that
\* succeeds prints the formula and ends the run with exit status 0
C19_MainCatchesEveryError ==
    Prog2mathEnded =>
        IF retval # NoneV
        THEN /\ exit_status = IntV(0)
             /\ PrintedLines = <<[what |-> "formula", text |-> Str(retval)]>>
             /\ stderr = <<>>
        ELSE /\ exit_status = IntV(-1)
             /\ stderr = <<>>
             /\ IF args.quiet THEN stdout = <<>>
                ELSE Len(PrintedLines) = 1 /\ PrintedLines[1].what = "error"

====
